---- MODULE Spec2Model ----
(***************************************************************************)
(* TagDuelling: host-authoritative two-peer game-state synchronisation.    *)
(*                                                                         *)
(* The host controller (js/hostController.js), the guest controller        *)
(* (js/guestController.js), the wire protocol (js/protocol.js), the game   *)
(* state module (js/gameState.js) and the handlers of the main module      *)
(* that drive them are modelled as one state machine.  Each peer is a      *)
(* single-threaded event loop: one action is one handler run to            *)
(* completion.  The data channel is a pair of FIFO queues.                 *)
(*                                                                         *)
(* Versions are scaled: MAX_VERSION stands for Number.MAX_SAFE_INTEGER     *)
(* (2^53 - 1), which is outside the range of TLC's integers.               *)
(* Timers hold the time left until they fire, in milliseconds.             *)
(***************************************************************************)
EXTENDS Integers, Sequences, FiniteSets, TLC

(***************************************************************************)
(* Bounds of the model                                                     *)
(***************************************************************************)
\* scaled stand-in for Number.MAX_SAFE_INTEGER
MAX_VERSION == 3
\* number of user actions (host and guest together) in one behaviour
MaxActions == 4
\* number of messages in flight
MaxQueue == 2
\* number of channels that are opened in one behaviour
MaxSessions == 1
\* number of user actions in one behaviour of the timed specification
MaxTimedActions == 1
\* number of user actions in one behaviour of the specification with fairness
MaxLiveActions == 3
\* number of steps that change a version in one behaviour of the version
\* arithmetic
MaxProbeSteps == 2
\* user actions in the specification of successive rounds
MaxRoundActions == 7
\* requests and cancellations of the rendezvous
MaxRoomRequests == 4
\* clock steps of the rendezvous
MaxTicks == 21
\* poll requests of one host that are in flight at a time
MaxInFlight == 2

(***************************************************************************)
(* Program constants                                                       *)
(***************************************************************************)
ACK_TIMEOUT_MS == 3000
MAX_RETRIES == 3
HEARTBEAT_INTERVAL_MS == 10000
HEARTBEAT_TIMEOUT_MS == 30000
\* the worker: length of a room code, lifetime of a room in seconds, least
\* lifetime given to a joined room, rounds of the search for a free code
CODE_LENGTH == 6
ROOM_TTL == 600
MIN_REMAINING_TTL == 60
MAX_CODE_ATTEMPTS == 10
\* js/webrtc.js: overall time of the polling of waitForGuest, in ms
POLL_TIMEOUT == 300000

NULL == "null"
\* a timer handle that is null
Off == 0 - 1

PHASES == [SETUP |-> "setup", WAITING |-> "waiting", PLAYING |-> "playing",
           CHALLENGE |-> "challenge", FINISHED |-> "finished"]

HostMessage == [WELCOME |-> "welcome", STATE_SYNC |-> "state_sync",
                ACTION_REJECTED |-> "action_rejected", PING |-> "ping",
                GAME_ENDED |-> "game_ended"]

GuestMessage == [SET_NAME |-> "set_name", SUBMIT_TURN |-> "submit_turn",
                 CHALLENGE |-> "challenge", REQUEST_REMATCH |-> "request_rematch",
                 ACK |-> "ack", PONG |-> "pong"]

RejectionReason == [NOT_YOUR_TURN |-> "not_your_turn", INVALID_TAG |-> "invalid_tag",
                    DUPLICATE_TAG |-> "duplicate_tag",
                    GAME_NOT_PLAYING |-> "game_not_playing",
                    INVALID_ACTION |-> "invalid_action"]

GameEndReason == [HOST_LEFT |-> "host_left", HOST_ENDED_SESSION |-> "host_ended_session",
                  CONNECTION_LOST |-> "connection_lost"]

(***************************************************************************)
(* Inputs                                                                  *)
(***************************************************************************)
\* keys as typed: "Amenity" lower-cases to "amenity"; the input =cafe has the
\* key ""
RawKeys == {"amenity", "Amenity", ""}
\* values as typed; NULL is "no value"
RawValues == {NULL, "cafe"}
\* a value typed into the value field of an existing tag is never empty
SpecifyValues == RawValues \ {NULL}
\* the turns a guest submits: action kind, key, value
GuestTurns ==
    {<<"add_tag", "amenity", NULL>>, <<"add_tag", "amenity", "cafe">>,
     <<"add_tag", "Amenity", NULL>>, <<"add_tag", "", "cafe">>,
     <<"specify_value", "amenity", "cafe">>,
     <<"remove_tag", "amenity", NULL>>}
GuestNames == {"Player 2", "Ann"}
HostNames == {"Player 1", "Hal"}
\* results of the count query: none and some
Counts == {0, 7}

(***************************************************************************)
(* js/gameState.js                                                         *)
(***************************************************************************)
NoPlayer == [name |-> NULL, isBot |-> FALSE]
NoResult == [count |-> 0 - 1, winner |-> NULL, loser |-> NULL, challengerWon |-> FALSE]
\* state.challenger refers to one of the objects of state.players: the index
\* of that object, or NoIndex for null
NoIndex == 0 - 1

createInitialState ==
    [players |-> [i \in 0..1 |-> [name |-> IF i = 0 THEN "Player 1" ELSE "Player 2",
                                   isBot |-> FALSE]],
     currentPlayerIndex |-> 0,
     tags |-> <<>>,
     region |-> NULL,
     gamePhase |-> PHASES.SETUP,
     challenger |-> NoIndex,
     challengeResult |-> NoResult]

\* stripQuotes(key.trim()).toLowerCase() on the keys of RawKeys
normalizeKey(key) ==
    CASE key = "Amenity" -> "amenity"
      [] OTHER -> key

\* value ? stripQuotes(value.trim()) : null
normalizeValue(value) == IF value = NULL THEN NULL ELSE value

hasKey(tags, k) == \E i \in 1..Len(tags) : tags[i].key = k

updatePlayerName(s, index, name) ==
    IF index >= 0 /\ index < 2
    THEN [s EXCEPT !.players[index].name = name]
    ELSE s

\* a human player gets the default name back, a bot gets a bot name
setPlayerAsBot(s, index, isBot) ==
    IF index >= 0 /\ index < 2
    THEN [s EXCEPT !.players[index] =
              [name |-> IF isBot THEN "woodpeck_bot"
                        ELSE IF index = 0 THEN "Player 1" ELSE "Player 2",
               isBot |-> isBot]]
    ELSE s

setRegion(s, regionData) == [s EXCEPT !.region = regionData]

\* the result of addTag: ok is its return value, s the state afterwards
\* an addTag that does not look for the key in the pool
addTagAgain(s, key, value) ==
    LET trimmedKey == normalizeKey(key) IN
    IF trimmedKey = "" THEN [ok |-> FALSE, s |-> s]
    ELSE [ok |-> TRUE,
          s |-> [s EXCEPT !.tags = Append(@, [key |-> trimmedKey,
                                              value |-> normalizeValue(value)])]]

addTag(s, key, value) ==
    LET trimmedKey == normalizeKey(key) IN
    IF trimmedKey = "" THEN [ok |-> FALSE, s |-> s]
    ELSE IF hasKey(s.tags, trimmedKey) THEN [ok |-> FALSE, s |-> s]
    ELSE [ok |-> TRUE,
          s |-> [s EXCEPT !.tags = Append(@, [key |-> trimmedKey,
                                              value |-> normalizeValue(value)])]]

specifyTagValue(s, key, value) ==
    LET trimmedKey == normalizeKey(key)
        trimmedValue == normalizeValue(value)
    IN
    IF trimmedKey = "" \/ trimmedValue = "" THEN [ok |-> FALSE, s |-> s]
    ELSE IF ~hasKey(s.tags, trimmedKey) THEN [ok |-> FALSE, s |-> s]
    ELSE LET i == CHOOSE j \in 1..Len(s.tags) :
                      /\ s.tags[j].key = trimmedKey
                      /\ \A k \in 1..(j - 1) : s.tags[k].key # trimmedKey
         IN IF s.tags[i].value # NULL THEN [ok |-> FALSE, s |-> s]
            ELSE [ok |-> TRUE, s |-> [s EXCEPT !.tags[i].value = trimmedValue]]

nextTurn(s) == [s EXCEPT !.currentPlayerIndex = (s.currentPlayerIndex + 1) % 2]

enterWaitingState(s) == [s EXCEPT !.gamePhase = PHASES.WAITING]

startGame(s) ==
    [s EXCEPT !.gamePhase = PHASES.PLAYING, !.currentPlayerIndex = 0, !.tags = <<>>,
              !.challenger = NoIndex, !.challengeResult = NoResult]

initiateChallenge(s) ==
    [s EXCEPT !.gamePhase = PHASES.CHALLENGE, !.challenger = s.currentPlayerIndex]

\* a setChallengeResult that takes the value standing for Infinity for no
\* match
setChallengeResultFinite(s, count) ==
    LET challenger == s.players[s.challenger]
        previousPlayerIndex == (s.currentPlayerIndex - 1 + 2) % 2
        previousPlayer == s.players[previousPlayerIndex]
    IN
    [s EXCEPT !.challengeResult =
                  IF count = 0 \/ count >= 1000000
                  THEN [count |-> count, winner |-> challenger.name,
                        loser |-> previousPlayer.name, challengerWon |-> TRUE]
                  ELSE [count |-> count, winner |-> previousPlayer.name,
                        loser |-> challenger.name, challengerWon |-> FALSE],
              !.gamePhase = PHASES.FINISHED]

setChallengeResult(s, count) ==
    LET challenger == s.players[s.challenger]
        previousPlayerIndex == (s.currentPlayerIndex - 1 + 2) % 2
        previousPlayer == s.players[previousPlayerIndex]
    IN
    [s EXCEPT !.challengeResult =
                  IF count = 0
                  THEN [count |-> count, winner |-> challenger.name,
                        loser |-> previousPlayer.name, challengerWon |-> TRUE]
                  ELSE [count |-> count, winner |-> previousPlayer.name,
                        loser |-> challenger.name, challengerWon |-> FALSE],
              !.gamePhase = PHASES.FINISHED]

playAgain(s) ==
    [s EXCEPT !.tags = <<>>, !.currentPlayerIndex = 0, !.gamePhase = PHASES.PLAYING,
              !.challenger = NoIndex, !.challengeResult = NoResult]

resetToSetup(s) == createInitialState

(***************************************************************************)
(* js/protocol.js                                                          *)
(***************************************************************************)
\* a comparison without the wraparound band
isNewerVersionNoWrap(received, last) == received > last

\* MAX_VERSION / 2 is a fraction when MAX_VERSION is odd: d > MAX_VERSION / 2
\* is 2 * d > MAX_VERSION
isNewerVersion(received, last) ==
    IF last > received /\ 2 * (last - received) > MAX_VERSION
    THEN TRUE
    ELSE received > last

NoMessage == [type |-> NULL]
NoVotes == [host |-> FALSE, guest |-> FALSE]
NoWins == [host |-> 0, guest |-> 0]

\* the message is serialised when it is sent: state.challenger becomes a copy
\* of the player object it refers to
createStateSync(gameState, version, rematchRequested, sessionWins) ==
    [type |-> HostMessage.STATE_SYNC,
     version |-> version,
     state |-> [players |-> gameState.players,
                currentPlayerIndex |-> gameState.currentPlayerIndex,
                tags |-> gameState.tags,
                region |-> gameState.region,
                gamePhase |-> gameState.gamePhase,
                challenger |-> IF gameState.challenger = NoIndex THEN NoPlayer
                               ELSE gameState.players[gameState.challenger],
                challengeResult |-> gameState.challengeResult,
                rematchRequested |-> rematchRequested,
                sessionWins |-> sessionWins]]

createWelcome(playerIndex) == [type |-> HostMessage.WELCOME, playerIndex |-> playerIndex]
createActionRejected(reason) == [type |-> HostMessage.ACTION_REJECTED, reason |-> reason]
createPing == [type |-> HostMessage.PING]
createGameEnded(reason) == [type |-> HostMessage.GAME_ENDED, reason |-> reason]
createSetName(name) == [type |-> GuestMessage.SET_NAME, name |-> name]
createSubmitTurn(action, key, value) ==
    [type |-> GuestMessage.SUBMIT_TURN, action |-> action, key |-> key, value |-> value]
createChallenge == [type |-> GuestMessage.CHALLENGE]
createRequestRematch == [type |-> GuestMessage.REQUEST_REMATCH]
\* an Ack that does not carry the version it acknowledges
createAckUnversioned(version) == [type |-> GuestMessage.ACK, version |-> 0]
createAck(version) == [type |-> GuestMessage.ACK, version |-> version]
createPong == [type |-> GuestMessage.PONG]

(***************************************************************************)
(* js/hostController.js.  A host record h holds the variables of the host  *)
(* peer: those of the controller, state (js/gameState.js), connected and   *)
(* intentionalDisconnect (js/webrtc.js), isHostRole (main module), and     *)
(* out, the messages the running handler has sent so far.                  *)
(***************************************************************************)
sendToGuest(h, message) ==
    IF ~h.connected THEN h ELSE [h EXCEPT !.out = Append(@, message)]

\* a counter that wraps to 0
incrementVersionToZero(stateVersion) ==
    IF stateVersion >= MAX_VERSION THEN 0 ELSE stateVersion + 1

incrementVersion(stateVersion) ==
    IF stateVersion >= MAX_VERSION THEN 1 ELSE stateVersion + 1

clearAckTimeout(h) == [h EXCEPT !.ackTimeout = Off]

\* a startAckTimeout that leaves a timer that is running as it is
startAckTimeoutNotRearmed(h) ==
    IF h.ackTimeout # Off THEN h ELSE [h EXCEPT !.ackTimeout = ACK_TIMEOUT_MS]

\* clearAckTimeout(); ackTimeout = setTimeout(..., ACK_TIMEOUT_MS)
startAckTimeout(h) == [h EXCEPT !.ackTimeout = ACK_TIMEOUT_MS]

stopHeartbeat(h) == [h EXCEPT !.heartbeatInterval = Off]

startHeartbeat(h) == [h EXCEPT !.heartbeatInterval = HEARTBEAT_INTERVAL_MS]

\* createStateSync is called without sessionWins: its default is sent
broadcastState(h) ==
    IF ~h.guestConnected THEN h
    ELSE LET v == incrementVersion(h.stateVersion)
             message == createStateSync(h.state, v, h.rematchRequested, NoWins)
             h1 == [h EXCEPT !.stateVersion = v, !.pendingAck = TRUE, !.retryCount = 0,
                             !.sinceBroadcast = 0, !.broadcast = message]
         IN startAckTimeout(sendToGuest(h1, message))

\* an initialize that runs again on an initialized controller
initializeUnguarded(h) ==
    LET h1 == [h EXCEPT !.initialized = TRUE, !.guestConnected = TRUE,
                        !.stateVersion = 0, !.retryCount = 0, !.pendingAck = FALSE,
                        !.rematchRequested = NoVotes]
    IN startHeartbeat(sendToGuest(h1, createWelcome(1)))

initialize(h) ==
    IF h.initialized THEN h
    ELSE LET h1 == [h EXCEPT !.initialized = TRUE, !.guestConnected = TRUE,
                             !.stateVersion = 0, !.retryCount = 0, !.pendingAck = FALSE,
                             !.rematchRequested = NoVotes]
         IN startHeartbeat(sendToGuest(h1, createWelcome(1)))

\* a shutdown that leaves the heartbeat interval and the ack timer running
shutdownKeepsTimers(h) ==
    [h EXCEPT !.initialized = FALSE, !.guestConnected = FALSE, !.stateVersion = 0,
              !.retryCount = 0, !.pendingAck = FALSE, !.rematchRequested = NoVotes,
              !.sinceBroadcast = 0, !.broadcast = NoMessage, !.roundsStarted = 0]

\* sinceBroadcast and broadcast observe the pending broadcast; they end
\* with it, as roundsStarted, the number of rounds started in the session
shutdown(h) ==
    [clearAckTimeout(stopHeartbeat(h)) EXCEPT
        !.initialized = FALSE, !.guestConnected = FALSE, !.stateVersion = 0,
        !.retryCount = 0, !.pendingAck = FALSE, !.rematchRequested = NoVotes,
        !.sinceBroadcast = 0, !.broadcast = NoMessage, !.roundsStarted = 0]

endSession(h) ==
    shutdown(IF h.guestConnected
             THEN sendToGuest(h, createGameEnded(GameEndReason.HOST_ENDED_SESSION))
             ELSE h)

handleSetName(h, name) ==
    broadcastState([h EXCEPT !.state = updatePlayerName(h.state, 1, name)])

\* a host that applies a turn without the turn and phase checks
handleGuestTurnUnchecked(h, message) ==
    broadcastState([h EXCEPT !.state = nextTurn(addTag(h.state, message.key,
                                                       message.value).s)])

handleGuestTurn(h, message) ==
    IF h.state.currentPlayerIndex # 1
    THEN sendToGuest(h, createActionRejected(RejectionReason.NOT_YOUR_TURN))
    ELSE IF h.state.gamePhase # PHASES.PLAYING
    THEN sendToGuest(h, createActionRejected(RejectionReason.GAME_NOT_PLAYING))
    ELSE IF message.action = "add_tag"
    THEN LET r == addTag(h.state, message.key, message.value) IN
         IF ~r.ok
         THEN sendToGuest(h, createActionRejected(RejectionReason.DUPLICATE_TAG))
         ELSE broadcastState([h EXCEPT !.state = nextTurn(r.s)])
    ELSE IF message.action = "specify_value"
    THEN LET r == specifyTagValue(h.state, message.key, message.value) IN
         IF ~r.ok
         THEN sendToGuest(h, createActionRejected(RejectionReason.INVALID_TAG))
         ELSE broadcastState([h EXCEPT !.state = nextTurn(r.s)])
    ELSE sendToGuest(h, createActionRejected(RejectionReason.INVALID_ACTION))

\* the main module's handleMultiplayerDisconnected on the host peer:
\* resetMultiplayerState, resetMultiplayerUI (webrtc.disconnect), resetToSetup,
\* and the connection-lost overlay for reason connection_lost
hostMultiplayerDisconnected(h, reason) ==
    LET h1 == IF h.initialized THEN shutdown(h) ELSE h IN
    [h1 EXCEPT !.isHostRole = FALSE, !.connected = FALSE, !.intentionalDisconnect = TRUE,
               !.state = resetToSetup(h.state),
               !.connectionLostShown = @ \/ (reason = GameEndReason.CONNECTION_LOST)]

\* the main module's executeChallengeQuery up to the await of the count query
executeChallengeQuery(h) == [h EXCEPT !.queryPending = TRUE]

\* a host that starts the challenge without the turn and phase checks
handleGuestChallengeUnchecked(h) ==
    executeChallengeQuery(broadcastState([h EXCEPT !.state = initiateChallenge(h.state)]))

\* a host that ends the session when it rejects a challenge
handleGuestChallengeRejectEnds(h) ==
    IF h.state.currentPlayerIndex # 1
    THEN endSession(sendToGuest(h, createActionRejected(RejectionReason.NOT_YOUR_TURN)))
    ELSE IF h.state.gamePhase # PHASES.PLAYING
    THEN endSession(sendToGuest(h, createActionRejected(RejectionReason.GAME_NOT_PLAYING)))
    ELSE executeChallengeQuery(
             broadcastState([h EXCEPT !.state = initiateChallenge(h.state)]))

handleGuestChallenge(h) ==
    IF h.state.currentPlayerIndex # 1
    THEN sendToGuest(h, createActionRejected(RejectionReason.NOT_YOUR_TURN))
    ELSE IF h.state.gamePhase # PHASES.PLAYING
    THEN sendToGuest(h, createActionRejected(RejectionReason.GAME_NOT_PLAYING))
    ELSE executeChallengeQuery(
             broadcastState([h EXCEPT !.state = initiateChallenge(h.state)]))

\* a startNewRound that broadcasts the new round with the votes still set
startNewRoundKeepsVotes(h) ==
    broadcastState([h EXCEPT !.state = nextTurn(playAgain(h.state)),
                             !.roundsStarted = @ + 1])

\* the state has no roundNumber (createInitialState, playAgain):
\* currentState.roundNumber || 1 is 1
startNewRound(h) ==
    LET currentRound == 1
        nextRound == currentRound + 1
        nextStartingPlayer == (nextRound - 1) % 2
        s1 == playAgain(h.state)
        s2 == IF nextStartingPlayer = 1 THEN nextTurn(s1) ELSE s1
    IN broadcastState([h EXCEPT !.rematchRequested = NoVotes, !.state = s2,
                                !.roundsStarted = @ + 1])

handleLocalRematchRequest(h) ==
    LET h1 == [h EXCEPT !.rematchRequested.host = TRUE] IN
    IF h1.rematchRequested.guest THEN startNewRound(h1) ELSE broadcastState(h1)

\* a host that starts the round on the guest's vote alone
handleGuestRematchRequestAlone(h) ==
    startNewRound([h EXCEPT !.rematchRequested.guest = TRUE])

handleGuestRematchRequest(h) ==
    LET h1 == [h EXCEPT !.rematchRequested.guest = TRUE] IN
    IF h1.rematchRequested.host THEN startNewRound(h1) ELSE broadcastState(h1)

\* a host that ignores every Ack
handleAckIgnored(h, version) == h

\* a handleAck that leaves the count of retransmissions as it is
handleAckKeepsRetries(h, version) ==
    IF version = h.stateVersion
    THEN clearAckTimeout([h EXCEPT !.pendingAck = FALSE])
    ELSE h

\* a host that takes every Ack for the Ack of its last broadcast
handleAckAnyVersion(h, version) ==
    [clearAckTimeout([h EXCEPT !.pendingAck = FALSE]) EXCEPT !.retryCount = 0]

handleAck(h, version) ==
    IF version = h.stateVersion
    THEN [clearAckTimeout([h EXCEPT !.pendingAck = FALSE]) EXCEPT !.retryCount = 0]
    ELSE h

handlePong(h) == h

\* a handleGuestMessage that does not look at initialized
handleGuestMessageUnguarded(h, message) ==
    CASE message.type = GuestMessage.SET_NAME -> handleSetName(h, message.name)
      [] message.type = GuestMessage.SUBMIT_TURN -> handleGuestTurn(h, message)
      [] message.type = GuestMessage.CHALLENGE -> handleGuestChallenge(h)
      [] message.type = GuestMessage.REQUEST_REMATCH -> handleGuestRematchRequest(h)
      [] message.type = GuestMessage.ACK -> handleAck(h, message.version)
      [] message.type = GuestMessage.PONG -> handlePong(h)
      [] OTHER -> h

handleGuestMessage(h, message) ==
    IF ~h.initialized THEN h
    ELSE CASE message.type = GuestMessage.SET_NAME -> handleSetName(h, message.name)
           [] message.type = GuestMessage.SUBMIT_TURN -> handleGuestTurn(h, message)
           [] message.type = GuestMessage.CHALLENGE -> handleGuestChallenge(h)
           [] message.type = GuestMessage.REQUEST_REMATCH -> handleGuestRematchRequest(h)
           [] message.type = GuestMessage.ACK -> handleAck(h, message.version)
           [] message.type = GuestMessage.PONG -> handlePong(h)
           [] OTHER -> h

\* the main module's handleWebRTCMessage on the host peer
hostWebRTCMessage(h, message) ==
    IF ~h.connected THEN h
    ELSE IF h.isHostRole /\ h.initialized THEN handleGuestMessage(h, message)
    ELSE h

\* a callback that gives up at the first timeout
ackTimeoutCallbackNoRetry(h) ==
    LET h0 == [h EXCEPT !.ackTimeout = Off] IN
    IF h0.pendingAck
    THEN hostMultiplayerDisconnected(
             [h0 EXCEPT !.guestConnected = FALSE, !.guestDisconnectedSignalled = TRUE],
             GameEndReason.CONNECTION_LOST)
    ELSE h0

\* the callback of the timer that startAckTimeout sets
ackTimeoutCallback(h) ==
    LET h0 == [h EXCEPT !.ackTimeout = Off] IN
    IF h0.pendingAck /\ h0.retryCount < MAX_RETRIES
    THEN LET h1 == [h0 EXCEPT !.retryCount = @ + 1]
             message == createStateSync(h1.state, h1.stateVersion, h1.rematchRequested,
                                        NoWins)
         IN startAckTimeout(sendToGuest(h1, message))
    ELSE IF h0.pendingAck
    THEN hostMultiplayerDisconnected(
             [h0 EXCEPT !.guestConnected = FALSE, !.guestDisconnectedSignalled = TRUE],
             GameEndReason.CONNECTION_LOST)
    ELSE h0

\* a heartbeat that declares the guest lost
heartbeatCallbackDeclaresLoss(h) ==
    hostMultiplayerDisconnected(
        [h EXCEPT !.heartbeatInterval = HEARTBEAT_INTERVAL_MS, !.guestConnected = FALSE,
                  !.guestDisconnectedSignalled = TRUE],
        GameEndReason.CONNECTION_LOST)

\* a heartbeat that sends nothing
heartbeatCallbackSilent(h) == [h EXCEPT !.heartbeatInterval = HEARTBEAT_INTERVAL_MS]

\* the callback of the interval that startHeartbeat sets
heartbeatCallback(h) ==
    LET h0 == [h EXCEPT !.heartbeatInterval = HEARTBEAT_INTERVAL_MS] IN
    IF h0.guestConnected THEN sendToGuest(h0, createPing) ELSE h0

(***************************************************************************)
(* js/guestController.js.  A guest record g holds the variables of the     *)
(* guest peer, as a host record does for the host.  The guest's game state *)
(* has the shape of a received snapshot: its challenger is a player object.*)
(***************************************************************************)
\* a game state as JSON: what createStateSync copies from it
snapshot(s) ==
    [players |-> s.players,
     currentPlayerIndex |-> s.currentPlayerIndex,
     tags |-> s.tags,
     region |-> s.region,
     gamePhase |-> s.gamePhase,
     challenger |-> IF s.challenger = NoIndex THEN NoPlayer ELSE s.players[s.challenger],
     challengeResult |-> s.challengeResult]

NoAction == [type |-> NULL]

sendToHost(g, message) ==
    IF ~g.connected THEN g ELSE [g EXCEPT !.out = Append(@, message)]

clearHeartbeatTimeout(g) == [g EXCEPT !.heartbeatTimeout = Off]

resetHeartbeatTimeout(g) == [g EXCEPT !.heartbeatTimeout = HEARTBEAT_TIMEOUT_MS]

guestInitialize(g) ==
    IF g.initialized THEN g
    ELSE [g EXCEPT !.initialized = TRUE, !.localPlayerIndex = 1,
                   !.lastReceivedVersion = 0, !.pendingAction = NoAction,
                   !.welcomeReceived = FALSE]

guestShutdown(g) ==
    [clearHeartbeatTimeout(g) EXCEPT
        !.initialized = FALSE, !.welcomeReceived = FALSE, !.lastReceivedVersion = 0,
        !.pendingAction = NoAction, !.lastRematchStatus = NoVotes,
        !.lastSessionWins = NoWins]

submitTurn(g, action, key, value) ==
    IF ~g.welcomeReceived THEN g
    ELSE sendToHost([g EXCEPT !.pendingAction = [type |-> "turn", action |-> action,
                                                 key |-> key, value |-> value]],
                    createSubmitTurn(action, key, value))

challenge(g) ==
    IF ~g.welcomeReceived THEN g
    ELSE sendToHost([g EXCEPT !.pendingAction = [type |-> "challenge"]], createChallenge)

requestRematch(g) ==
    IF ~g.welcomeReceived THEN g ELSE sendToHost(g, createRequestRematch)

\* a setName that does not wait for the Welcome
setNameUnguarded(g, name) == sendToHost(g, createSetName(name))

setName(g, name) ==
    IF ~g.welcomeReceived THEN g ELSE sendToHost(g, createSetName(name))

\* the main module's handleMultiplayerDisconnected on the guest peer
guestMultiplayerDisconnected(g, reason) ==
    LET g1 == IF g.initialized THEN guestShutdown(g) ELSE g IN
    [g1 EXCEPT !.isGuestRole = FALSE, !.connected = FALSE, !.intentionalDisconnect = TRUE,
               !.state = snapshot(resetToSetup(g.state)),
               !.hostDisconnectedReason = reason,
               !.connectionLostShown = @ \/ (reason = GameEndReason.CONNECTION_LOST)]

\* the callback registered by setOnWelcomeReceived sends the name of the
\* name input, which holds the guest's own player name
handleWelcome(g, message) ==
    LET g1 == resetHeartbeatTimeout([g EXCEPT !.localPlayerIndex = message.playerIndex,
                                              !.welcomeReceived = TRUE])
    IN setName(g1, g1.nameInput)

\* state.replaceState of the received fields
replaceState(s, fields) ==
    [s EXCEPT !.players = fields.players,
              !.currentPlayerIndex = fields.currentPlayerIndex,
              !.tags = fields.tags,
              !.region = fields.region,
              !.gamePhase = fields.gamePhase,
              !.challenger = fields.challenger,
              !.challengeResult = fields.challengeResult]

applyReceivedState(g, receivedState) ==
    LET guestPhase == IF receivedState.gamePhase = PHASES.SETUP THEN PHASES.WAITING
                      ELSE receivedState.gamePhase
    IN [g EXCEPT !.state = replaceState(g.state,
                               [players |-> receivedState.players,
                                currentPlayerIndex |-> receivedState.currentPlayerIndex,
                                tags |-> receivedState.tags,
                                region |-> receivedState.region,
                                gamePhase |-> guestPhase,
                                challenger |-> receivedState.challenger,
                                challengeResult |-> receivedState.challengeResult])]

\* a guest that applies every StateSync it receives
handleStateSyncAlways(g, message) ==
    LET g1 == sendToHost([g EXCEPT !.lastReceivedVersion = message.version],
                         createAck(message.version))
        g2 == [g1 EXCEPT !.pendingAction = NoAction,
                         !.lastRematchStatus = message.state.rematchRequested,
                         !.lastSessionWins = message.state.sessionWins]
    IN applyReceivedState(g2, message.state)

handleStateSync(g, message) ==
    IF ~isNewerVersion(message.version, g.lastReceivedVersion)
    THEN sendToHost(g, createAck(message.version))
    ELSE LET g1 == sendToHost([g EXCEPT !.lastReceivedVersion = message.version],
                              createAck(message.version))
             g2 == [g1 EXCEPT !.pendingAction = NoAction,
                              !.lastRematchStatus = message.state.rematchRequested,
                              !.lastSessionWins = message.state.sessionWins]
         IN applyReceivedState(g2, message.state)

handleActionRejected(g, message) == [g EXCEPT !.pendingAction = NoAction]

handlePing(g) == sendToHost(g, createPong)

handleGameEnded(g, message) ==
    guestMultiplayerDisconnected(guestShutdown(g), message.reason)

\* a guest whose liveness timeout is restarted by Ping alone
handleHostMessagePingOnly(g, message) ==
    IF ~g.initialized THEN g
    ELSE CASE message.type = HostMessage.WELCOME -> handleWelcome(g, message)
           [] message.type = HostMessage.STATE_SYNC -> handleStateSync(g, message)
           [] message.type = HostMessage.ACTION_REJECTED -> handleActionRejected(g, message)
           [] message.type = HostMessage.PING -> handlePing(resetHeartbeatTimeout(g))
           [] message.type = HostMessage.GAME_ENDED -> handleGameEnded(g, message)
           [] OTHER -> g

handleHostMessage(g, message) ==
    IF ~g.initialized THEN g
    ELSE LET g1 == resetHeartbeatTimeout(g) IN
         CASE message.type = HostMessage.WELCOME -> handleWelcome(g1, message)
           [] message.type = HostMessage.STATE_SYNC -> handleStateSync(g1, message)
           [] message.type = HostMessage.ACTION_REJECTED -> handleActionRejected(g1, message)
           [] message.type = HostMessage.PING -> handlePing(g1)
           [] message.type = HostMessage.GAME_ENDED -> handleGameEnded(g1, message)
           [] OTHER -> g1

\* the main module's handleWebRTCMessage on the guest peer
guestWebRTCMessage(g, message) ==
    IF ~g.connected THEN g
    ELSE IF g.isGuestRole /\ g.initialized THEN handleHostMessage(g, message)
    ELSE g

\* the callback of the timer that resetHeartbeatTimeout sets
heartbeatTimeoutCallback(g) ==
    guestMultiplayerDisconnected([g EXCEPT !.heartbeatTimeout = Off],
                                 GameEndReason.CONNECTION_LOST)

(***************************************************************************)
(* State                                                                   *)
(***************************************************************************)
VARIABLES
    host,       \* the host peer
    guest,      \* the guest peer
    toGuest,    \* messages in flight from the host to the guest
    toHost,     \* messages in flight from the guest to the host
    linkUp,     \* the network path between the peers works
    budget,     \* user actions left
    sessions,   \* channels opened so far
    probe,      \* arguments and results of the version arithmetic on its own
    signalling  \* the rendezvous worker's store, its requests, and the clock

vars == <<host, guest, toGuest, toHost, linkUp, budget, sessions, probe, signalling>>

HostInit ==
    [initialized |-> FALSE, stateVersion |-> 0, pendingAck |-> FALSE, ackTimeout |-> Off,
     retryCount |-> 0, heartbeatInterval |-> Off, guestConnected |-> FALSE,
     rematchRequested |-> NoVotes,
     state |-> createInitialState,
     sessionWins |-> NoWins,
     isHostRole |-> FALSE, connected |-> FALSE, intentionalDisconnect |-> FALSE,
     queryPending |-> FALSE,
     out |-> <<>>,
     sinceBroadcast |-> 0, broadcast |-> NoMessage, roundsStarted |-> 0,
     guestDisconnectedSignalled |-> FALSE, connectionLostShown |-> FALSE]

GuestInit ==
    [initialized |-> FALSE, localPlayerIndex |-> 1, lastReceivedVersion |-> 0,
     pendingAction |-> NoAction, heartbeatTimeout |-> Off, welcomeReceived |-> FALSE,
     lastRematchStatus |-> NoVotes, lastSessionWins |-> NoWins,
     state |-> snapshot(createInitialState),
     isGuestRole |-> FALSE, connected |-> FALSE, intentionalDisconnect |-> FALSE,
     nameInput |-> "Player 2",
     out |-> <<>>,
     hostDisconnectedReason |-> NULL, connectionLostShown |-> FALSE]

\* no version arithmetic is under way
NoProbe == [stateVersion |-> 0, received |-> 0, last |-> 0, newer |-> NULL, steps |-> 0]

NoSignalling == NULL

Init ==
    /\ host = HostInit
    /\ guest = GuestInit
    /\ toGuest = <<>>
    /\ toHost = <<>>
    /\ linkUp = TRUE
    /\ budget = MaxActions
    /\ sessions = 0
    /\ probe = NoProbe
    /\ signalling = NoSignalling

\* isMultiplayerMode() && isHostRole
HostInSession == host.connected /\ host.initialized /\ host.isHostRole
\* isMultiplayerMode() && isGuestRole
GuestInSession == guest.connected /\ guest.initialized /\ guest.isGuestRole

\* the handler h1 of the host peer has run: what it sent is in flight, or
\* never arrives when the network path is down
HostSends(h1) ==
    /\ host' = [h1 EXCEPT !.out = <<>>]
    /\ toGuest' = IF linkUp THEN toGuest \o h1.out ELSE toGuest

GuestSends(g1) ==
    /\ guest' = [g1 EXCEPT !.out = <<>>]
    /\ toHost' = IF linkUp THEN toHost \o g1.out ELSE toHost

\* a handler that is not the receipt of a message runs while what it sends
\* keeps the number of messages in flight within the bound; the handler of a
\* received message sends at most one message for the one it takes
HostStep(h1) ==
    /\ linkUp => Len(toGuest) + Len(toHost) + Len(h1.out) <= MaxQueue
    /\ HostSends(h1)

GuestStep(g1) ==
    /\ linkUp => Len(toGuest) + Len(toHost) + Len(g1.out) <= MaxQueue
    /\ GuestSends(g1)

UserAction ==
    /\ budget > 0
    /\ budget' = budget - 1
    /\ UNCHANGED <<sessions, linkUp, probe, signalling>>

(***************************************************************************)
(* Channel establishment: createRoom and joinRoom have succeeded and the   *)
(* data channel opens (js/webrtc.js onopen, handleMultiplayerConnected).   *)
(***************************************************************************)
hostMultiplayerConnected(h) ==
    LET s1 == updatePlayerName(updatePlayerName(h.state, 0, "Host"), 1, "Player 2")
        s2 == setPlayerAsBot(setPlayerAsBot(s1, 0, FALSE), 1, FALSE)
    IN initialize([h EXCEPT !.isHostRole = TRUE, !.connected = TRUE,
                            !.intentionalDisconnect = FALSE,
                            !.connectionLostShown = FALSE,
                            !.guestDisconnectedSignalled = FALSE, !.state = s2])

guestMultiplayerConnected(g) ==
    LET s1 == updatePlayerName(updatePlayerName(g.state, 0, "Host"), 1, "Player 2")
        s2 == setPlayerAsBot(setPlayerAsBot(s1, 0, FALSE), 1, FALSE)
    IN guestInitialize([g EXCEPT !.isGuestRole = TRUE, !.connected = TRUE,
                                 !.intentionalDisconnect = FALSE,
                                 !.connectionLostShown = FALSE,
                                 !.hostDisconnectedReason = NULL,
                                 !.nameInput = "Player 2",
                                 !.state = enterWaitingState(s2)])

\* what initialize sends goes out on the new channel, whose path works
Connect ==
    /\ sessions < MaxSessions
    /\ ~host.connected /\ ~guest.connected
    /\ host.state.gamePhase = PHASES.SETUP
    /\ ~host.queryPending
    /\ toGuest = <<>> /\ toHost = <<>>
    /\ LET h1 == hostMultiplayerConnected(host)
       IN /\ host' = [h1 EXCEPT !.out = <<>>]
          /\ toGuest' = h1.out
    /\ guest' = guestMultiplayerConnected(guest)
    /\ sessions' = sessions + 1
    /\ linkUp' = TRUE
    /\ UNCHANGED <<toHost, budget, probe, signalling>>

\* the network path between the peers fails while the channel is open: what
\* is in flight, and what is sent from now on, never arrives
Partition ==
    /\ host.connected /\ guest.connected
    /\ linkUp
    /\ linkUp' = FALSE
    /\ toGuest' = <<>>
    /\ toHost' = <<>>
    /\ UNCHANGED <<host, guest, budget, sessions, probe, signalling>>

(***************************************************************************)
(* Host user actions (main module).  A button is available on the screen   *)
(* that renderFromState shows for the phase.                               *)
(***************************************************************************)
\* the name input of the local player on the setup screen: the state is
\* updated and nothing is sent
HostRename(name) ==
    /\ HostInSession
    /\ host.state.gamePhase = PHASES.SETUP
    /\ name # host.state.players[0].name
    /\ UserAction
    /\ HostStep([host EXCEPT !.state = updatePlayerName(host.state, 0, name)])
    /\ UNCHANGED <<guest, toHost>>

\* ui.getSelectedRegion() is the region of the state
handleStartGame(h) ==
    broadcastState([h EXCEPT !.state = startGame(setRegion(h.state, h.state.region)),
                             !.roundsStarted = 1])

HostStartGame ==
    /\ HostInSession
    /\ host.state.gamePhase = PHASES.SETUP
    /\ UserAction
    /\ HostStep(handleStartGame(host))
    /\ UNCHANGED <<guest, toHost>>

\* handleSubmit, host branch, type 'new'
handleSubmitNew(h, key, value) ==
    LET r == addTag(h.state, key, value) IN
    IF ~r.ok THEN h ELSE broadcastState([h EXCEPT !.state = nextTurn(r.s)])

\* handleSubmit, host branch, type 'value'
handleSubmitValue(h, tagIndex, value) ==
    IF tagIndex > Len(h.state.tags) THEN h
    ELSE LET r == specifyTagValue(h.state, h.state.tags[tagIndex].key, value) IN
         IF ~r.ok THEN h ELSE broadcastState([h EXCEPT !.state = nextTurn(r.s)])

HostSubmit ==
    /\ HostInSession
    /\ host.state.gamePhase = PHASES.PLAYING
    /\ host.state.currentPlayerIndex = 0
    /\ UserAction
    /\ \/ \E key \in RawKeys, value \in RawValues :
              HostStep(handleSubmitNew(host, key, value))
       \/ \E tagIndex \in 1..Len(host.state.tags), value \in SpecifyValues :
              HostStep(handleSubmitValue(host, tagIndex, value))
    /\ UNCHANGED <<guest, toHost>>

handleChallenge(h) ==
    executeChallengeQuery(broadcastState([h EXCEPT !.state = initiateChallenge(h.state)]))

HostChallenge ==
    /\ HostInSession
    /\ host.state.gamePhase = PHASES.PLAYING
    /\ host.state.currentPlayerIndex = 0
    /\ UserAction
    /\ HostStep(handleChallenge(host))
    /\ UNCHANGED <<guest, toHost>>

HostPlayAgain ==
    /\ HostInSession
    /\ host.state.gamePhase = PHASES.FINISHED
    /\ UserAction
    /\ HostStep(handleLocalRematchRequest(host))
    /\ UNCHANGED <<guest, toHost>>

\* handleNewGame and handleBackToSetup, host branch: the channel stays open
handleNewGame(h) ==
    LET h1 == endSession(h)
        h2 == [h1 EXCEPT !.isHostRole = FALSE, !.sessionWins = NoWins]
    IN [h2 EXCEPT !.state = resetToSetup(h2.state)]

HostNewGame ==
    /\ HostInSession
    /\ host.state.gamePhase \in {PHASES.PLAYING, PHASES.FINISHED}
    /\ UserAction
    /\ HostStep(handleNewGame(host))
    /\ UNCHANGED <<guest, toHost>>

\* handleDisconnect: endSession while the channel is open, webrtc.disconnect(),
\* resetMultiplayerState, resetToSetup
handleDisconnect(h) ==
    LET h1 == IF h.isHostRole THEN endSession(h) ELSE h
        h2 == [h1 EXCEPT !.intentionalDisconnect = TRUE, !.connected = FALSE]
        h3 == IF h2.initialized THEN shutdown(h2) ELSE h2
    IN [h3 EXCEPT !.isHostRole = FALSE, !.state = resetToSetup(h3.state)]

\* the Disconnect button of the setup screen
HostDisconnect ==
    /\ host.connected
    /\ host.state.gamePhase = PHASES.SETUP
    /\ UserAction
    /\ HostStep(handleDisconnect(host))
    /\ toHost' = <<>>
    /\ UNCHANGED guest

(***************************************************************************)
(* The count query of executeChallengeQuery returns or fails               *)
(***************************************************************************)
\* hostController.recordWin(winnerIndex)
recordWin(h, winnerIndex) ==
    IF winnerIndex = 0 THEN [h EXCEPT !.sessionWins.host = @ + 1]
    ELSE [h EXCEPT !.sessionWins.guest = @ + 1]

\* executeChallengeQuery after the count query has returned count.  Outside a
\* session state.challenger is null, setChallengeResult throws and the catch
\* block runs state.playAgain().
queryReturned(h, count) ==
    LET h0 == [h EXCEPT !.queryPending = FALSE]
        challengerIndex == h0.state.currentPlayerIndex
        previousPlayerIndex == (challengerIndex - 1 + 2) % 2
        winnerIndex == IF count = 0 THEN challengerIndex ELSE previousPlayerIndex
    IN IF h0.connected /\ h0.initialized /\ h0.isHostRole
       THEN LET h1 == recordWin(h0, winnerIndex) IN
            broadcastState([h1 EXCEPT !.state = setChallengeResult(h1.state, count)])
       ELSE IF h0.state.challenger = NoIndex
       THEN [h0 EXCEPT !.state = playAgain(h0.state)]
       ELSE [h0 EXCEPT !.state = setChallengeResult(h0.state, count)]

\* executeChallengeQuery when the count query failed and is not retried
queryFailed(h) ==
    LET h0 == [h EXCEPT !.queryPending = FALSE, !.state = playAgain(h.state)] IN
    IF h0.connected /\ h0.initialized /\ h0.isHostRole THEN broadcastState(h0) ELSE h0

QueryReturns ==
    /\ host.queryPending
    /\ \E count \in Counts : HostStep(queryReturned(host, count))
    /\ UNCHANGED <<guest, toHost, linkUp, budget, sessions, probe, signalling>>

QueryFails ==
    /\ host.queryPending
    /\ HostStep(queryFailed(host))
    /\ UNCHANGED <<guest, toHost, linkUp, budget, sessions, probe, signalling>>

(***************************************************************************)
(* Host events                                                             *)
(***************************************************************************)
HostReceive ==
    /\ host.connected
    /\ toHost # <<>>
    /\ HostSends(hostWebRTCMessage(host, Head(toHost)))
    /\ toHost' = Tail(toHost)
    /\ UNCHANGED <<guest, linkUp, budget, sessions, probe, signalling>>

\* a handler that closed the channel of its peer drops what was in flight
\* towards that peer
HostClosing(h1) == IF h1.connected THEN toHost ELSE <<>>
GuestClosing(g1) == IF g1.connected THEN toGuest ELSE <<>>

AckTimeoutFires ==
    /\ host.ackTimeout # Off
    /\ LET h1 == ackTimeoutCallback(host) IN
       /\ HostStep(h1)
       /\ toHost' = HostClosing(h1)
    /\ UNCHANGED <<guest, linkUp, budget, sessions, probe, signalling>>

HeartbeatFires ==
    /\ host.heartbeatInterval # Off
    /\ HostStep(heartbeatCallback(host))
    /\ UNCHANGED <<guest, toHost, linkUp, budget, sessions, probe, signalling>>

\* channel.onclose on the host after the guest closed the channel, or
\* connection state 'failed' after the network path failed
HostChannelCloses ==
    /\ host.connected
    /\ ~guest.connected \/ ~linkUp
    /\ HostStep(IF host.intentionalDisconnect THEN [host EXCEPT !.connected = FALSE]
                ELSE hostMultiplayerDisconnected(host, GameEndReason.CONNECTION_LOST))
    /\ toHost' = <<>>
    /\ UNCHANGED <<guest, linkUp, budget, sessions, probe, signalling>>

(***************************************************************************)
(* Guest user actions (main module): the operations of the guest           *)
(* controller, called from the screen that renderFromState shows for the   *)
(* guest's copy of the phase.  The arguments are those the controller      *)
(* accepts.                                                                *)
(***************************************************************************)
\* isLocalPlayerTurn() on the guest peer
GuestLocalTurn ==
    guest.state.gamePhase = PHASES.PLAYING /\ guest.state.currentPlayerIndex = 1

GuestSubmitTurn ==
    /\ GuestInSession
    /\ GuestLocalTurn
    /\ UserAction
    /\ \E turn \in GuestTurns : GuestStep(submitTurn(guest, turn[1], turn[2], turn[3]))
    /\ UNCHANGED <<host, toGuest>>

GuestChallenge ==
    /\ GuestInSession
    /\ GuestLocalTurn
    /\ UserAction
    /\ GuestStep(challenge(guest))
    /\ UNCHANGED <<host, toGuest>>

GuestRequestRematch ==
    /\ GuestInSession
    /\ guest.state.gamePhase = PHASES.FINISHED
    /\ UserAction
    /\ GuestStep(requestRematch(guest))
    /\ UNCHANGED <<host, toGuest>>

\* the main module's handleGuestNameChange: the local copy is updated and
\* the name is sent
handleGuestNameChange(g, name) ==
    setName([g EXCEPT !.nameInput = name, !.state = updatePlayerName(g.state, 1, name)],
            name)

GuestNameChange ==
    /\ GuestInSession
    /\ guest.state.gamePhase = PHASES.WAITING
    /\ UserAction
    /\ \E name \in GuestNames : GuestStep(handleGuestNameChange(guest, name))
    /\ UNCHANGED <<host, toGuest>>

\* handleLeaveGame, and the guest branches of handleNewGame and
\* handleBackToSetup: shutdown, webrtc.disconnect(), resetToSetup
handleLeaveGame(g) ==
    LET g1 == IF g.isGuestRole THEN guestShutdown(g) ELSE g IN
    [g1 EXCEPT !.isGuestRole = FALSE, !.connected = FALSE, !.intentionalDisconnect = TRUE,
               !.state = snapshot(resetToSetup(g1.state))]

GuestLeave ==
    /\ GuestInSession
    /\ guest.state.gamePhase # PHASES.CHALLENGE
    /\ UserAction
    /\ GuestStep(handleLeaveGame(guest))
    /\ toGuest' = <<>>
    /\ UNCHANGED host

(***************************************************************************)
(* Guest events                                                            *)
(***************************************************************************)
GuestReceive ==
    /\ guest.connected
    /\ toGuest # <<>>
    /\ LET g1 == guestWebRTCMessage(guest, Head(toGuest)) IN
       /\ GuestSends(g1)
       /\ toGuest' = IF g1.connected THEN Tail(toGuest) ELSE <<>>
    /\ UNCHANGED <<host, linkUp, budget, sessions, probe, signalling>>

HeartbeatTimeoutFires ==
    /\ guest.heartbeatTimeout # Off
    /\ GuestStep(heartbeatTimeoutCallback(guest))
    /\ toGuest' = <<>>
    /\ UNCHANGED <<host, linkUp, budget, sessions, probe, signalling>>

\* channel.onclose on the guest after the host closed the channel, or
\* connection state 'failed' after the network path failed
GuestChannelCloses ==
    /\ guest.connected
    /\ ~host.connected \/ ~linkUp
    /\ GuestStep(IF guest.intentionalDisconnect THEN [guest EXCEPT !.connected = FALSE]
                 ELSE guestMultiplayerDisconnected(guest, GameEndReason.CONNECTION_LOST))
    /\ toGuest' = <<>>
    /\ UNCHANGED <<host, linkUp, budget, sessions, probe, signalling>>

(***************************************************************************)
(* Specification: the timers fire at any time while they are set           *)
(***************************************************************************)
Next ==
    \/ Connect
    \/ Partition
    \/ \E name \in HostNames : HostRename(name)
    \/ HostStartGame
    \/ HostSubmit
    \/ HostChallenge
    \/ HostPlayAgain
    \/ HostNewGame
    \/ HostDisconnect
    \/ QueryReturns
    \/ QueryFails
    \/ HostReceive
    \/ AckTimeoutFires
    \/ HeartbeatFires
    \/ HostChannelCloses
    \/ GuestSubmitTurn
    \/ GuestChallenge
    \/ GuestRequestRematch
    \/ GuestNameChange
    \/ GuestLeave
    \/ GuestReceive
    \/ HeartbeatTimeoutFires
    \/ GuestChannelCloses

Spec == Init /\ [][Next]_vars

TypeOK ==
    /\ host.stateVersion \in 0..MAX_VERSION
    /\ host.retryCount \in 0..MAX_RETRIES
    /\ Len(toGuest) + Len(toHost) <= MaxQueue

(***************************************************************************)
(* Specification with fairness: each peer's event loop runs the handler of *)
(* a message that the channel has delivered.                               *)
(***************************************************************************)
InitLive ==
    /\ host = HostInit
    /\ guest = GuestInit
    /\ toGuest = <<>>
    /\ toHost = <<>>
    /\ linkUp = TRUE
    /\ budget = MaxLiveActions
    /\ sessions = 0
    /\ probe = NoProbe
    /\ signalling = NoSignalling

SpecLive ==
    InitLive /\ [][Next]_vars /\ WF_vars(HostReceive) /\ WF_vars(GuestReceive)

(***************************************************************************)
(* Timed specification: time passes in steps of Quantum, a timer fires     *)
(* when its time is up, and time does not pass a timer that is due.        *)
(* Messages take any time.                                                 *)
(***************************************************************************)
RECURSIVE GCD(_, _)
GCD(a, b) == IF b = 0 THEN a ELSE GCD(b, a % b)

Quantum == GCD(ACK_TIMEOUT_MS, GCD(HEARTBEAT_INTERVAL_MS, HEARTBEAT_TIMEOUT_MS))

Elapse(timer) == IF timer = Off THEN Off ELSE timer - Quantum

Tick ==
    /\ host.ackTimeout # 0 /\ host.heartbeatInterval # 0 /\ guest.heartbeatTimeout # 0
    /\ \/ host.ackTimeout # Off
       \/ host.heartbeatInterval # Off
       \/ guest.heartbeatTimeout # Off
    /\ host' = [host EXCEPT !.ackTimeout = Elapse(@),
                            !.heartbeatInterval = Elapse(@),
                            !.sinceBroadcast = IF host.pendingAck THEN @ + Quantum ELSE @]
    /\ guest' = [guest EXCEPT !.heartbeatTimeout = Elapse(@)]
    /\ UNCHANGED <<toGuest, toHost, linkUp, budget, sessions, probe, signalling>>

InitTimed ==
    /\ host = HostInit
    /\ guest = GuestInit
    /\ toGuest = <<>>
    /\ toHost = <<>>
    /\ linkUp = TRUE
    /\ budget = MaxTimedActions
    /\ sessions = 0
    /\ probe = NoProbe
    /\ signalling = NoSignalling

NextTimed ==
    \/ Tick
    \/ Connect
    \/ Partition
    \/ HostStartGame
    \/ HostReceive
    \/ (host.ackTimeout = 0 /\ AckTimeoutFires)
    \/ (host.heartbeatInterval = 0 /\ HeartbeatFires)
    \/ HostChannelCloses
    \/ GuestLeave
    \/ GuestReceive
    \/ (guest.heartbeatTimeout = 0 /\ HeartbeatTimeoutFires)
    \/ GuestChannelCloses

SpecTimed == InitTimed /\ [][NextTimed]_vars

(***************************************************************************)
(* Timed specification with a channel that works and delivers in time:     *)
(* nobody leaves, and time does not pass when messages would have been on  *)
(* their way to the guest through a whole period of HEARTBEAT_TIMEOUT_MS - *)
(* HEARTBEAT_INTERVAL_MS.  probe.busy is the time for which toGuest has    *)
(* not been seen empty, which no message in it has been under way longer   *)
(* than.  Messages to the host take any time.                              *)
(***************************************************************************)
TickDelay ==
    LET busy == IF "busy" \in DOMAIN probe THEN probe.busy ELSE 0 IN
    /\ host.ackTimeout # 0 /\ host.heartbeatInterval # 0 /\ guest.heartbeatTimeout # 0
    /\ \/ host.ackTimeout # Off
       \/ host.heartbeatInterval # Off
       \/ guest.heartbeatTimeout # Off
    /\ toGuest # <<>> => busy + Quantum < HEARTBEAT_TIMEOUT_MS - HEARTBEAT_INTERVAL_MS
    /\ host' = [host EXCEPT !.ackTimeout = Elapse(@),
                            !.heartbeatInterval = Elapse(@),
                            !.sinceBroadcast = IF host.pendingAck THEN @ + Quantum ELSE @]
    /\ guest' = [guest EXCEPT !.heartbeatTimeout = Elapse(@)]
    /\ probe' = [busy |-> IF toGuest = <<>> THEN 0 ELSE busy + Quantum]
    /\ UNCHANGED <<toGuest, toHost, linkUp, budget, sessions, signalling>>

SpecDelay ==
    /\ InitTimed
    /\ [][ \/ TickDelay
           \/ Connect
           \/ HostStartGame
           \/ HostReceive
           \/ (host.ackTimeout = 0 /\ AckTimeoutFires)
           \/ (host.heartbeatInterval = 0 /\ HeartbeatFires)
           \/ GuestReceive
         ]_vars

(***************************************************************************)
(* Successive rounds of one session: every message arrives before a timer  *)
(* fires, nobody leaves, and the count query returns.                      *)
(***************************************************************************)
InitRounds ==
    /\ host = HostInit
    /\ guest = GuestInit
    /\ toGuest = <<>>
    /\ toHost = <<>>
    /\ linkUp = TRUE
    /\ budget = MaxRoundActions
    /\ sessions = 0
    /\ probe = NoProbe
    /\ signalling = NoSignalling

NextRounds ==
    \/ Connect
    \/ HostStartGame
    \/ HostChallenge
    \/ HostPlayAgain
    \/ QueryReturns
    \/ HostReceive
    \/ GuestChallenge
    \/ GuestRequestRematch
    \/ GuestReceive

SpecRounds == InitRounds /\ [][NextRounds]_vars

\* successive rounds in which tags are played before the challenge
SpecRematch == InitRounds /\ [][NextRounds \/ HostSubmit \/ GuestSubmitTurn]_vars

(***************************************************************************)
(* Version arithmetic on its own: the host's version counter and the       *)
(* guest's comparison, from every triple of versions.                      *)
(***************************************************************************)
Versions == 0..MAX_VERSION

InitVersions ==
    /\ host = HostInit
    /\ guest = GuestInit
    /\ toGuest = <<>>
    /\ toHost = <<>>
    /\ linkUp = TRUE
    /\ budget = 0
    /\ sessions = 0
    /\ probe \in [stateVersion : Versions, received : Versions, last : Versions,
                  newer : {NULL}, steps : {0}]
    /\ signalling = NoSignalling

\* stateVersion = incrementVersion(stateVersion), and the new version is sent
ProbeIncrement ==
    /\ probe.newer = NULL
    /\ probe.steps < MaxProbeSteps
    /\ probe' = [probe EXCEPT !.stateVersion = incrementVersion(probe.stateVersion),
                              !.received = incrementVersion(probe.stateVersion),
                              !.steps = @ + 1]
    /\ UNCHANGED <<host, guest, toGuest, toHost, linkUp, budget, sessions, signalling>>

\* isNewerVersion(message.version, lastReceivedVersion)
ProbeCompare ==
    /\ probe.newer = NULL
    /\ probe' = [probe EXCEPT !.newer = IF isNewerVersion(probe.received, probe.last)
                                        THEN "yes" ELSE "no"]
    /\ UNCHANGED <<host, guest, toGuest, toHost, linkUp, budget, sessions, signalling>>

\* lastReceivedVersion = message.version
ProbeAccept ==
    /\ probe.newer = "yes"
    /\ probe.steps < MaxProbeSteps
    /\ probe' = [probe EXCEPT !.last = probe.received, !.newer = NULL, !.steps = @ + 1]
    /\ UNCHANGED <<host, guest, toGuest, toHost, linkUp, budget, sessions, signalling>>

NextVersions ==
    \/ ProbeIncrement
    \/ ProbeCompare
    \/ ProbeAccept

SpecVersions == InitVersions /\ [][NextVersions]_vars

(***************************************************************************)
(* Rendezvous: the worker and its store of room:<code> keys, and           *)
(* createRoom, waitForGuest and joinRoom of js/webrtc.js.  The worker      *)
(* handles requests concurrently: a request is a sequence of steps, one    *)
(* for each store operation it awaits, and the steps of different          *)
(* requests interleave.  The clock counts seconds.  The rate-limit counter *)
(* of handleRoomCreate stays below RATE_LIMIT_MAX with the requests made   *)
(* here and is left out.                                                   *)
(***************************************************************************)

\* two of the codes generateRoomCode returns
RoomCodes == {<<"A", "K", "7", "M", "2", "X">>, <<"B", "K", "7", "M", "2", "X">>}

\* codes as typed into the join form
TypedCodes == {<<"a", "k", "7", "m", "2", "x">>, <<"B", "K", "7", "M", "2", "X">>}

toUpperCase(code) ==
    [i \in DOMAIN code |-> CASE code[i] = "a" -> "A"
                             [] code[i] = "k" -> "K"
                             [] code[i] = "m" -> "M"
                             [] code[i] = "x" -> "X"
                             [] OTHER -> code[i]]

\* the browsers that host and the browsers that join
HostIds == {"h1", "h2"}
GuestIds == {"g1", "g2"}

\* the clock advances in steps of half the least expirationTtl
TimeStep == MIN_REMAINING_TTL \div 2

InitRooms ==
    /\ host = HostInit
    /\ guest = GuestInit
    /\ toGuest = <<>>
    /\ toHost = <<>>
    /\ linkUp = TRUE
    /\ budget = MaxRoomRequests
    /\ sessions = 0
    /\ probe = NoProbe
    /\ signalling =
          [now |-> 0,
           kv |-> [c \in {} |-> NULL],
           hosts |-> [h \in HostIds |->
                        [pc |-> "idle", code |-> <<>>, attempts |-> 0, polling |-> FALSE,
                         startTime |-> 0, settled |-> NULL, onTimeoutCalls |-> 0,
                         accepted |-> NULL]],
           guests |-> [g \in GuestIds |->
                         [pc |-> "idle", code |-> <<>>, offer |-> NULL, created |-> 0,
                          remainingTtl |-> 0, error |-> NULL]]]

\* handleRoomCreate: one round of the loop that looks for a free code, the
\* first of them on the request of createRoom
RoomCreate(h, code) ==
    LET r == signalling.hosts[h]
        again == r.attempts + 1
    IN /\ r.pc \in {"idle", "loop"}
       /\ r.pc = "idle" => /\ budget > 0
                           /\ signalling.now + ROOM_TTL <= MaxTicks * TimeStep
       /\ budget' = IF r.pc = "idle" THEN budget - 1 ELSE budget
       /\ signalling' =
             [signalling EXCEPT !.hosts[h] =
                 IF code \notin DOMAIN signalling.kv
                 THEN [r EXCEPT !.pc = "store", !.code = code, !.attempts = 0]
                 ELSE IF again < MAX_CODE_ATTEMPTS
                      THEN [r EXCEPT !.pc = "loop", !.attempts = again]
                      ELSE [r EXCEPT !.pc = "failed", !.attempts = again]]
       /\ UNCHANGED <<host, guest, toGuest, toHost, linkUp, sessions, probe>>

\* handleRoomCreate stores the room; createRoom returns the code and
\* handleHostGame calls waitForGuest, which arms the polling interval
RoomStore(h) ==
    LET r == signalling.hosts[h]
        roomData == [offer |-> h, answer |-> NULL, created |-> signalling.now,
                     expires |-> signalling.now + ROOM_TTL]
    IN /\ r.pc = "store"
       /\ signalling' =
             [signalling EXCEPT
                 !.kv = [c \in DOMAIN @ \cup {r.code} |->
                           IF c = r.code THEN roomData ELSE @[c]],
                 !.hosts[h] = [r EXCEPT !.pc = "ok", !.polling = TRUE,
                                        !.startTime = signalling.now,
                                        !.settled = "pending"]]
       /\ UNCHANGED <<host, guest, toGuest, toHost, linkUp, budget, sessions, probe>>

\* the callback of the polling interval of waitForGuest, with the room
\* status request it makes; onTimeout is resetMultiplayerUI, which cleans up
Poll(h) ==
    LET r == signalling.hosts[h]
    IN /\ r.polling
       /\ signalling' =
             [signalling EXCEPT !.hosts[h] =
                 IF (signalling.now - r.startTime) * 1000 > POLL_TIMEOUT
                 THEN [r EXCEPT !.polling = FALSE, !.onTimeoutCalls = @ + 1,
                                !.settled = "timeout", !.code = <<>>, !.startTime = 0]
                 ELSE IF r.code \notin DOMAIN signalling.kv
                 THEN [r EXCEPT !.polling = FALSE, !.settled = "expired",
                                !.startTime = 0]
                 ELSE IF signalling.kv[r.code].answer # NULL
                 THEN [r EXCEPT !.polling = FALSE, !.settled = "resolved",
                                !.accepted = signalling.kv[r.code].answer,
                                !.startTime = 0]
                 ELSE r]
       /\ UNCHANGED <<host, guest, toGuest, toHost, linkUp, budget, sessions, probe>>

\* the Cancel button of the host section: resetMultiplayerUI, disconnect,
\* cleanup, stopPolling
HostCancel(h) ==
    LET r == signalling.hosts[h]
    IN /\ r.polling
       /\ budget > 0
       /\ budget' = budget - 1
       /\ signalling' = [signalling EXCEPT !.hosts[h] =
                            [r EXCEPT !.pc = "cancelled", !.polling = FALSE,
                                      !.code = <<>>, !.startTime = 0]]
       /\ UNCHANGED <<host, guest, toGuest, toHost, linkUp, sessions, probe>>

\* a joinRoom that does not look at hasAnswer
JoinRoomUnchecked(g, typed) ==
    LET r == signalling.guests[g]
        code == toUpperCase(typed)
    IN /\ r.pc = "idle"
       /\ budget > 0
       /\ budget' = budget - 1
       /\ signalling' =
             [signalling EXCEPT !.guests[g] =
                 IF code \notin DOMAIN signalling.kv
                 THEN [r EXCEPT !.pc = "failed", !.code = code,
                                !.error = "Room not found or expired"]
                 ELSE [r EXCEPT !.pc = "post", !.code = code]]
       /\ UNCHANGED <<host, guest, toGuest, toHost, linkUp, sessions, probe>>

\* joinRoom up to the answer: the room status request (handleRoomStatus)
\* and the checks on its response
JoinRoom(g, typed) ==
    LET r == signalling.guests[g]
        code == toUpperCase(typed)
    IN /\ r.pc = "idle"
       /\ budget > 0
       /\ budget' = budget - 1
       /\ signalling' =
             [signalling EXCEPT !.guests[g] =
                 IF code \notin DOMAIN signalling.kv
                 THEN [r EXCEPT !.pc = "failed", !.code = code,
                                !.error = "Room not found or expired"]
                 ELSE IF signalling.kv[code].answer # NULL
                 THEN [r EXCEPT !.pc = "failed", !.code = code,
                                !.error = "Room already has a player"]
                 ELSE [r EXCEPT !.pc = "post", !.code = code]]
       /\ UNCHANGED <<host, guest, toGuest, toHost, linkUp, sessions, probe>>

\* joinRoom posts the answer; handleRoomJoin reads the room and either
\* answers with an error, which joinRoom throws, or goes on to store
RoomJoinGet(g) ==
    LET r == signalling.guests[g]
        code == toUpperCase(r.code)
    IN /\ r.pc = "post"
       /\ signalling' =
             [signalling EXCEPT !.guests[g] =
                 IF code \notin DOMAIN signalling.kv
                 THEN [r EXCEPT !.pc = "failed", !.error = "Room not found or expired"]
                 ELSE IF signalling.kv[code].answer # NULL
                 THEN [r EXCEPT !.pc = "failed", !.error = "Room already has a player"]
                 ELSE LET roomData == signalling.kv[code]
                          elapsed == signalling.now - roomData.created
                          rest == ROOM_TTL - elapsed
                      IN [r EXCEPT !.pc = "put", !.offer = roomData.offer,
                                   !.created = roomData.created,
                                   !.remainingTtl = IF rest > MIN_REMAINING_TTL
                                                    THEN rest ELSE MIN_REMAINING_TTL]]
       /\ UNCHANGED <<host, guest, toGuest, toHost, linkUp, budget, sessions, probe>>

\* handleRoomJoin stores the room it read, with the answer, for the
\* remaining lifetime
RoomJoinPut(g) ==
    LET r == signalling.guests[g]
        roomData == [offer |-> r.offer, answer |-> g, created |-> r.created,
                     expires |-> signalling.now + r.remainingTtl]
    IN /\ r.pc = "put"
       /\ signalling' =
             [signalling EXCEPT
                 !.kv = [c \in DOMAIN @ \cup {r.code} |->
                           IF c = r.code THEN roomData ELSE @[c]],
                 !.guests[g] = [r EXCEPT !.pc = "joined", !.offer = NULL, !.created = 0,
                                         !.remainingTtl = 0]]
       /\ UNCHANGED <<host, guest, toGuest, toHost, linkUp, budget, sessions, probe>>

\* time passes and the store drops the keys whose expirationTtl has run
\* out.  A request to the worker and the negotiation of an answer take less
\* than a step of the clock, and the clock is of interest only while a room
\* is stored or an interval is armed.
RoomTick ==
    /\ signalling.now < MaxTicks * TimeStep
    /\ \A h \in HostIds : signalling.hosts[h].pc \notin {"loop", "store"}
    /\ \A g \in GuestIds : signalling.guests[g].pc \notin {"post", "put"}
    /\ \/ DOMAIN signalling.kv # {}
       \/ \E h \in HostIds : signalling.hosts[h].polling
    /\ signalling' =
          [signalling EXCEPT
              !.now = @ + TimeStep,
              !.kv = [c \in {d \in DOMAIN @ : @[d].expires > signalling.now + TimeStep}
                        |-> @[c]]]
    /\ UNCHANGED <<host, guest, toGuest, toHost, linkUp, budget, sessions, probe>>

NextRooms ==
    \/ \E h \in HostIds, code \in RoomCodes : RoomCreate(h, code)
    \/ \E h \in HostIds : RoomStore(h)
    \/ \E h \in HostIds : Poll(h)
    \/ \E h \in HostIds : HostCancel(h)
    \/ \E g \in GuestIds, typed \in TypedCodes : JoinRoom(g, typed)
    \/ \E g \in GuestIds : RoomJoinGet(g)
    \/ \E g \in GuestIds : RoomJoinPut(g)
    \/ RoomTick

\* the interval timer fires, the clock runs and the worker answers
SpecRooms ==
    /\ InitRooms
    /\ [][NextRooms]_vars
    /\ \A h \in HostIds : WF_vars(Poll(h))
    /\ \A h \in HostIds : WF_vars(RoomStore(h))
    /\ \A h \in HostIds :
          WF_vars(signalling.hosts[h].pc = "loop" /\ \E code \in RoomCodes : RoomCreate(h, code))
    /\ \A g \in GuestIds : WF_vars(RoomJoinGet(g)) /\ WF_vars(RoomJoinPut(g))
    /\ WF_vars(RoomTick)

(***************************************************************************)
(* The polling of waitForGuest with its requests in flight: the interval   *)
(* fires every POLL_INTERVAL whether or not the fetch of an earlier        *)
(* callback has returned.  probe holds the requests in flight, the room    *)
(* code they ask for, and the calls made so far.                           *)
(***************************************************************************)
\* the callback of the polling interval up to its fetch
PollFire(h) ==
    LET r == signalling.hosts[h]
        p == IF "inFlight" \in DOMAIN probe THEN probe
             ELSE [inFlight |-> 0, code |-> <<>>, setRemoteDescriptionCalls |-> 0,
                   resolveCalls |-> 0]
    IN /\ r.polling
       /\ p.inFlight < MaxInFlight
       /\ IF (signalling.now - r.startTime) * 1000 > POLL_TIMEOUT
          THEN /\ signalling' =
                     [signalling EXCEPT !.hosts[h] =
                         [r EXCEPT !.polling = FALSE, !.onTimeoutCalls = @ + 1,
                                   !.settled = "timeout", !.code = <<>>,
                                   !.startTime = 0]]
               /\ probe' = p
          ELSE /\ probe' = [p EXCEPT !.inFlight = @ + 1, !.code = r.code]
               /\ UNCHANGED signalling
       /\ UNCHANGED <<host, guest, toGuest, toHost, linkUp, budget, sessions>>

\* the rest of a callback: the response of handleRoomStatus arrives.  After
\* the cleanup of a timeout there is no peer connection and acceptAnswer
\* throws before it applies the answer; setRemoteDescription of an answer
\* on a connection that has its answer throws.  The callback catches both.
PollResponse(h) ==
    LET r == signalling.hosts[h]
        stopped == [r EXCEPT !.polling = FALSE, !.startTime = 0]
    IN /\ "inFlight" \in DOMAIN probe
       /\ probe.inFlight > 0
       /\ IF probe.code \notin DOMAIN signalling.kv
          THEN /\ signalling' =
                     [signalling EXCEPT !.hosts[h] =
                         [stopped EXCEPT !.settled = IF @ = "pending" THEN "expired"
                                                     ELSE @]]
               /\ probe' = [probe EXCEPT !.inFlight = @ - 1]
          ELSE IF signalling.kv[probe.code].answer = NULL
          THEN /\ probe' = [probe EXCEPT !.inFlight = @ - 1]
               /\ UNCHANGED signalling
          ELSE IF r.settled = "timeout"
          THEN /\ signalling' = [signalling EXCEPT !.hosts[h] = stopped]
               /\ probe' = [probe EXCEPT !.inFlight = @ - 1]
          ELSE IF r.accepted # NULL
          THEN /\ signalling' = [signalling EXCEPT !.hosts[h] = stopped]
               /\ probe' = [probe EXCEPT !.inFlight = @ - 1,
                                         !.setRemoteDescriptionCalls = @ + 1]
          ELSE /\ signalling' =
                     [signalling EXCEPT !.hosts[h] =
                         [stopped EXCEPT !.accepted = signalling.kv[probe.code].answer,
                                         !.settled = IF @ = "pending" THEN "resolved"
                                                     ELSE @]]
               /\ probe' = [probe EXCEPT !.inFlight = @ - 1,
                                         !.setRemoteDescriptionCalls = @ + 1,
                                         !.resolveCalls = @ + 1]
       /\ UNCHANGED <<host, guest, toGuest, toHost, linkUp, budget, sessions>>

\* one browser hosts, and its requests to the worker take any time
SpecPolls ==
    /\ InitRooms
    /\ [][ \/ \E code \in RoomCodes : RoomCreate("h1", code)
           \/ RoomStore("h1")
           \/ PollFire("h1")
           \/ PollResponse("h1")
           \/ \E g \in GuestIds, typed \in TypedCodes : JoinRoom(g, typed)
           \/ \E g \in GuestIds : RoomJoinGet(g)
           \/ \E g \in GuestIds : RoomJoinPut(g)
           \/ RoomTick
         ]_vars

(***************************************************************************)
(* The count query (js/overpass.js executeCountQuery) on its responses,    *)
(* within one round of a session in which every message arrives before a   *)
(* timer fires.  probe holds the last response of the Overpass server.     *)
(***************************************************************************)
\* the value standing for Infinity: greater than every count
Infinity == 1000000

\* responses to the count query.  status 0: fetch threw; body: the response
\* text is JSON, an HTML page, or neither; remark and elements: fields of
\* the JSON object (elements "missing": not an array; "empty": []; "count":
\* its first element has tags.total = total)
Responses ==
    {[status |-> 0, body |-> NULL, remark |-> NULL, elements |-> NULL, total |-> NULL],
     [status |-> 429, body |-> NULL, remark |-> NULL, elements |-> NULL, total |-> NULL],
     [status |-> 504, body |-> NULL, remark |-> NULL, elements |-> NULL, total |-> NULL],
     [status |-> 500, body |-> NULL, remark |-> NULL, elements |-> NULL, total |-> NULL],
     [status |-> 200, body |-> "html", remark |-> NULL, elements |-> NULL, total |-> NULL],
     [status |-> 200, body |-> "json", remark |-> NULL, elements |-> "missing",
      total |-> NULL],
     [status |-> 200, body |-> "json", remark |-> "runtime error: Query timed out",
      elements |-> "empty", total |-> NULL],
     [status |-> 200, body |-> "json", remark |-> "runtime error: Query run out of memory",
      elements |-> "empty", total |-> NULL],
     [status |-> 200, body |-> "json", remark |-> NULL, elements |-> "count",
      total |-> "abc"],
     [status |-> 200, body |-> "json", remark |-> NULL, elements |-> "count",
      total |-> "0"],
     [status |-> 200, body |-> "json", remark |-> NULL, elements |-> "count",
      total |-> "7"],
     [status |-> 200, body |-> "json", remark |-> NULL, elements |-> "empty",
      total |-> NULL]}

\* executeCountQuery from the response on: the count it returns, or the
\* OverpassError it throws (all of them retryable)
executeCountQuery(response) ==
    LET thrown == [error |-> TRUE, count |-> 0]
        returned(count) == [error |-> FALSE, count |-> count]
    IN IF response.status = 0 THEN thrown
       ELSE IF response.status # 200
       THEN IF response.status = 429 THEN thrown
            ELSE IF response.status \in {504, 408} THEN returned(Infinity)
            ELSE thrown
       ELSE IF response.body # "json" THEN thrown
       ELSE IF response.remark = "runtime error: Query timed out" THEN returned(Infinity)
       ELSE IF response.elements = "missing" THEN thrown
       ELSE IF response.elements = "count"
       THEN CASE response.total = "0" -> returned(0)
              [] response.total = "7" -> returned(7)
              [] OTHER -> thrown
       ELSE returned(0)

\* executeChallengeQuery from the response of the server on: the catch block
\* asks whether to retry, and the query is sent again or given up
QueryCompletes ==
    /\ host.queryPending
    /\ \E response \in Responses, shouldRetry \in BOOLEAN :
          LET result == executeCountQuery(response)
          IN /\ result.error \/ ~shouldRetry
             /\ probe' = [response |-> response]
             /\ HostStep(IF ~result.error THEN queryReturned(host, result.count)
                         ELSE IF shouldRetry THEN host
                         ELSE queryFailed(host))
    /\ UNCHANGED <<guest, toHost, linkUp, budget, sessions, signalling>>

NextQuery ==
    \/ Connect
    \/ HostStartGame
    \/ HostSubmit
    \/ HostChallenge
    \/ QueryCompletes
    \/ HostReceive
    \/ GuestSubmitTurn
    \/ GuestChallenge
    \/ GuestReceive

SpecQuery == InitRounds /\ [][NextQuery]_vars

(***************************************************************************)
(* Properties                                                              *)
(***************************************************************************)

\* the sessions of both peers run over a working channel and the host's
\* state and rematch votes are those of its last broadcast
C1_Stable ==
    /\ host.connected /\ host.initialized /\ host.isHostRole
    /\ guest.connected /\ guest.initialized /\ guest.isGuestRole
    /\ linkUp
    /\ host.broadcast # NoMessage
    /\ host.broadcast = createStateSync(host.state, host.stateVersion,
                                        host.rematchRequested, NoWins)

\* the guest has the host's version and state, with phase Setup shown as
\* Waiting, and the host waits for no Ack
C1_Agree ==
    /\ guest.lastReceivedVersion = host.stateVersion
    /\ guest.state = [snapshot(host.state) EXCEPT
                          !.gamePhase = IF @ = PHASES.SETUP THEN PHASES.WAITING ELSE @]
    /\ ~host.pendingAck

\* C1: if from some point on the channel stays open and working and the
\* host's state stays that of its last broadcast, then from some point on the
\* guest's lastReceivedVersion is the host's stateVersion, the guest's game
\* state is the host's (Setup shown as Waiting) and no Ack is pending.
C1_EventualAgreement == <>[]C1_Stable => <>[]C1_Agree

\* the peers agree after a game was started and a turn was taken
C1_Witness ==
    /\ C1_Stable
    /\ C1_Agree
    /\ host.state.gamePhase = PHASES.PLAYING
    /\ host.state.tags # <<>>
    /\ toGuest = <<>> /\ toHost = <<>>

\* C2: within one session every new broadcast raises stateVersion by exactly
\* one, wrapping from MAX_VERSION to 1 and never to 0, the version changes
\* with nothing but a new broadcast, and an ack-timeout retransmission
\* carries the version of the broadcast it repeats.
C2_VersionPerBroadcast ==
    [][ /\ (host.initialized /\ host'.initialized /\ host'.broadcast # host.broadcast)
            => /\ host'.stateVersion = IF host.stateVersion = MAX_VERSION THEN 1
                                       ELSE host.stateVersion + 1
               /\ host'.stateVersion # 0
               /\ host'.broadcast.version = host'.stateVersion
        /\ (host.initialized /\ host'.initialized /\ host'.broadcast = host.broadcast)
            => host'.stateVersion = host.stateVersion
        /\ (host.connected /\ linkUp /\ host'.retryCount = host.retryCount + 1)
            => /\ toGuest' = Append(toGuest, toGuest'[Len(toGuest')])
               /\ toGuest'[Len(toGuest')].type = HostMessage.STATE_SYNC
               /\ toGuest'[Len(toGuest')].version = host.broadcast.version
               /\ host'.stateVersion = host.stateVersion
               /\ host'.broadcast = host.broadcast
      ]_vars

\* the version has wrapped to 1 (the start of the game and a turn of each
\* player were broadcast) and the broadcast has been retransmitted
C2_Witness ==
    /\ host.initialized
    /\ host.stateVersion = 1
    /\ host.state.gamePhase = PHASES.PLAYING
    /\ host.state.currentPlayerIndex = 0
    /\ host.state.tags # <<>>
    /\ host.retryCount > 0

\* C3: a StateSync that the guest receives in a session is applied only if
\* isNewerVersion(version, lastReceivedVersion); one whose version is equal
\* to or older than the last applied version changes neither the local game
\* state, lastReceivedVersion, the rematch status, the session wins nor the
\* pending action.
C3_StaleStateSyncDiscarded ==
    [][ (/\ guest.connected /\ guest.initialized /\ guest.isGuestRole
         /\ toGuest # <<>>
         /\ Head(toGuest).type = HostMessage.STATE_SYNC
         /\ toGuest' = Tail(toGuest) /\ guest'.connected /\ linkUp')
        => IF isNewerVersion(Head(toGuest).version, guest.lastReceivedVersion)
           THEN guest'.lastReceivedVersion = Head(toGuest).version
           ELSE /\ guest'.state = guest.state
                /\ guest'.lastReceivedVersion = guest.lastReceivedVersion
                /\ guest'.lastRematchStatus = guest.lastRematchStatus
                /\ guest'.lastSessionWins = guest.lastSessionWins
                /\ guest'.pendingAction = guest.pendingAction
      ]_vars

\* the guest has sent a turn and then acknowledged a StateSync that did not
\* clear the pending action: a retransmission of the version it had applied
C3_Witness ==
    /\ guest.initialized
    /\ guest.pendingAction # NoAction
    /\ Len(toHost) = 2
    /\ toHost[1].type = GuestMessage.SUBMIT_TURN
    /\ toHost[2] = createAck(guest.lastReceivedVersion)

\* C4: delivering the StateSync that is next in the channel to the guest twice
\* leaves the guest as delivering it once does, and each receipt sends
\* exactly one Ack with the version of the message, whether the version is
\* new, stale or a duplicate.
C4_StateSyncIdempotent ==
    (/\ guest.connected /\ guest.initialized /\ guest.isGuestRole
     /\ toGuest # <<>>
     /\ Head(toGuest).type = HostMessage.STATE_SYNC)
    => LET m == Head(toGuest)
           once == guestWebRTCMessage(guest, m)
           twice == guestWebRTCMessage([once EXCEPT !.out = <<>>], m)
       IN /\ once.out = <<[type |-> GuestMessage.ACK, version |-> m.version]>>
          /\ twice.out = once.out
          /\ [twice EXCEPT !.out = <<>>] = [once EXCEPT !.out = <<>>]

\* the guest has received the same version twice and has acknowledged it
\* twice: the second receipt was a duplicate
C4_Witness ==
    /\ guest.initialized
    /\ Len(toHost) >= 2
    /\ toHost[1].type = GuestMessage.ACK
    /\ toHost[2] = toHost[1]
    /\ guest.lastReceivedVersion = toHost[1].version

\* C5: for all versions received and last in 0..MAX_VERSION, the comparison
\* isNewerVersion(received, last) is true exactly when received > last, or
\* last > received and last - received > MAX_VERSION / 2; version 1, sent
\* after the host's version wrapped from MAX_VERSION, is newer than
\* MAX_VERSION.
C5_IsNewerVersion ==
    probe.newer # NULL
    => /\ (probe.newer = "yes")
           <=> \/ probe.received > probe.last
               \/ /\ probe.last > probe.received
                  /\ 2 * (probe.last - probe.received) > MAX_VERSION
       /\ (probe.last = MAX_VERSION /\ probe.received = 1) => probe.newer = "yes"

\* the host's version wrapped from MAX_VERSION to 1 and the guest, which had
\* applied MAX_VERSION, found it newer
C5_Witness ==
    /\ probe.steps > 0
    /\ probe.stateVersion = 1
    /\ probe.received = 1
    /\ probe.last = MAX_VERSION
    /\ probe.newer = "yes"

C7_TurnValidation ==
    [][ (/\ host.connected /\ host.initialized /\ host.isHostRole
         /\ toHost # <<>>
         /\ Head(toHost).type = GuestMessage.SUBMIT_TURN
         /\ host.state.currentPlayerIndex = 1
         /\ host.state.gamePhase = PHASES.PLAYING
         /\ toHost' = Tail(toHost) /\ host'.connected /\ linkUp')
        => LET m == Head(toHost)
               key == normalizeKey(m.key)
               tags == host.state.tags
               sent == SubSeq(toGuest', Len(toGuest) + 1, Len(toGuest'))
               rejected(reason) ==
                   /\ sent = <<[type |-> HostMessage.ACTION_REJECTED, reason |-> reason]>>
                   /\ host'.state.tags = tags
                   /\ host'.state.currentPlayerIndex = host.state.currentPlayerIndex
               applied(newTags) ==
                   /\ host'.state.tags = newTags
                   /\ host'.state.currentPlayerIndex =
                          (host.state.currentPlayerIndex + 1) % 2
                   /\ host'.stateVersion # host.stateVersion
                   /\ Len(sent) = 1
                   /\ sent[1].type = HostMessage.STATE_SYNC
                   /\ sent[1].version = host'.stateVersion
                   /\ sent[1].state.tags = newTags
           IN CASE m.action = "add_tag" ->
                       IF \E i \in 1..Len(tags) : tags[i].key = key
                       THEN rejected(RejectionReason.DUPLICATE_TAG)
                       ELSE applied(Append(tags, [key |-> key, value |-> m.value]))
                [] m.action = "specify_value" ->
                       IF \/ ~\E i \in 1..Len(tags) : tags[i].key = key
                          \/ \E i \in 1..Len(tags) :
                                 tags[i].key = key /\ tags[i].value # NULL
                       THEN rejected(RejectionReason.INVALID_TAG)
                       ELSE applied([i \in 1..Len(tags) |->
                                        IF tags[i].key = key
                                        THEN [tags[i] EXCEPT !.value = m.value]
                                        ELSE tags[i]])
                [] OTHER -> rejected(RejectionReason.INVALID_ACTION)
      ]_vars

\* C8: while a broadcast is unacknowledged the time since it was sent is the
\* time of the retransmissions made plus the time the running deadline has
\* used; a retransmission is made ACK_TIMEOUT_MS after the one before; the
\* guest is declared disconnected after exactly MAX_RETRIES retransmissions,
\* no earlier than MAX_RETRIES * ACK_TIMEOUT_MS (9 s) and no later than
\* (MAX_RETRIES + 1) * ACK_TIMEOUT_MS (12 s) after the broadcast, and time
\* does not pass that limit with the broadcast still pending.
C8_DisconnectAfterRetries ==
    [][ /\ host.pendingAck
            => /\ host.ackTimeout # Off
               /\ host.sinceBroadcast = host.retryCount * ACK_TIMEOUT_MS
                                          + (ACK_TIMEOUT_MS - host.ackTimeout)
               /\ host.sinceBroadcast <= (MAX_RETRIES + 1) * ACK_TIMEOUT_MS
        /\ host'.retryCount = host.retryCount + 1
            => /\ host.sinceBroadcast = host'.retryCount * ACK_TIMEOUT_MS
               /\ host'.retryCount <= MAX_RETRIES
        /\ (host'.guestDisconnectedSignalled /\ ~host.guestDisconnectedSignalled)
            => /\ host.pendingAck
               /\ host.retryCount = MAX_RETRIES
               /\ host.sinceBroadcast >= MAX_RETRIES * ACK_TIMEOUT_MS
               /\ host.sinceBroadcast <= (MAX_RETRIES + 1) * ACK_TIMEOUT_MS
               /\ ~host'.guestConnected
      ]_vars

\* no Ack arrived and the host has declared the guest disconnected
C8_Witness ==
    /\ host.guestDisconnectedSignalled
    /\ host.connectionLostShown
    /\ ~linkUp

\* C9: a retransmission sends the message that the broadcast of its version
\* sent, and changes nothing of the host but retryCount and the deadline.
C9_RetransmissionPayload ==
    [][ (host.connected /\ linkUp /\ host'.retryCount = host.retryCount + 1)
        => /\ toGuest' = Append(toGuest, host.broadcast)
           /\ host' = [host EXCEPT !.retryCount = @ + 1, !.ackTimeout = ACK_TIMEOUT_MS]
      ]_vars

\* C10: the guest is signalled as disconnected only by the ack-timeout
\* callback with a broadcast pending and retryCount at MAX_RETRIES; apart
\* from that step guestConnected becomes false only when the user ends the
\* session or the channel closes, so not on a Pong, a rejected intent, an
\* Ack or a heartbeat tick.
C10_SoleDisconnectPath ==
    [][ /\ (host'.guestDisconnectedSignalled /\ ~host.guestDisconnectedSignalled)
            => /\ host.ackTimeout # Off
               /\ host.pendingAck
               /\ host.retryCount = MAX_RETRIES
        /\ (host.guestConnected /\ ~host'.guestConnected)
            => \/ host'.guestDisconnectedSignalled /\ ~host.guestDisconnectedSignalled
               \/ budget' = budget - 1
               \/ ~host'.connected /\ (~guest.connected \/ ~linkUp)
      ]_vars

\* the ack-timeout callback has declared the guest disconnected
C10_Witness ==
    /\ host.guestDisconnectedSignalled
    /\ ~host.guestConnected
    /\ ~host.initialized

\* C11: in a session, the handler of a received Ack whose version is the
\* current stateVersion leaves pendingAck false, the ack timer cancelled and
\* retryCount 0, and changes nothing else; when no broadcast is pending (the
\* version was cleared before) it changes nothing at all; the handler of an
\* Ack of any other version changes nothing of the host (pendingAck,
\* retryCount, the ack timer, stateVersion, the game state) and sends nothing.
C11_AckClearsOnlyCurrent ==
    (/\ host.connected /\ host.initialized /\ host.isHostRole
     /\ toHost # <<>>
     /\ Head(toHost).type = GuestMessage.ACK)
    => LET h1 == hostWebRTCMessage(host, Head(toHost)) IN
       IF Head(toHost).version = host.stateVersion
       THEN /\ h1 = [host EXCEPT !.pendingAck = FALSE, !.ackTimeout = Off,
                                 !.retryCount = 0]
            /\ ~host.pendingAck => h1 = host
       ELSE h1 = host

\* a second Ack of the current version is about to be handled after the
\* first one has cleared the broadcast
C11_Witness ==
    /\ host.connected /\ host.initialized /\ host.isHostRole
    /\ host.stateVersion >= 1
    /\ ~host.pendingAck
    /\ toHost # <<>>
    /\ Head(toHost) = [type |-> GuestMessage.ACK, version |-> host.stateVersion]

\* C12: in a step of a running session the phase goes from Finished to Playing
\* (a new round starts) if and only if the step sets one rematch vote (the
\* host's Play Again, or the receipt of the guest's RequestRematch) while the
\* other vote is true; the new round has both votes false, an empty tag pool
\* and no challenge fields, and is broadcast.  A vote set while the other is
\* false leaves the game state (phase, tag pool, turn index, challenge fields)
\* unchanged, changes of the votes only the one set, and causes exactly one
\* broadcast, which reports the votes.  No vote outlives its session: outside
\* a session both votes are false.
C12_RematchVotes ==
    [][ /\ ~host'.initialized => host'.rematchRequested = NoVotes
        /\ (host.connected /\ host.initialized /\ host.isHostRole /\ host'.initialized)
           => LET voteGuest == /\ toHost # <<>>
                               /\ Head(toHost).type = GuestMessage.REQUEST_REMATCH
                               /\ toHost' = Tail(toHost) /\ linkUp'
                  voteHost == /\ host.state.gamePhase = PHASES.FINISHED
                              /\ budget' = budget - 1
                              /\ host' # host /\ guest' = guest /\ toHost' = toHost
                  other == IF voteGuest THEN host.rematchRequested.host
                           ELSE host.rematchRequested.guest
                  newRound == /\ host.state.gamePhase = PHASES.FINISHED
                              /\ host'.state.gamePhase = PHASES.PLAYING
                  sent == SubSeq(toGuest', Len(toGuest) + 1, Len(toGuest'))
                  broadcast == /\ host'.stateVersion = incrementVersion(host.stateVersion)
                               /\ host'.pendingAck /\ host'.retryCount = 0
                               /\ linkUp => /\ Len(sent) = 1
                                            /\ sent[1].type = HostMessage.STATE_SYNC
                                            /\ sent[1].version = host'.stateVersion
                                            /\ sent[1].state.rematchRequested =
                                                   host'.rematchRequested
                                            /\ sent[1].state.gamePhase = host'.state.gamePhase
                                            /\ sent[1].state.tags = host'.state.tags
              IN /\ newRound <=> ((voteGuest \/ voteHost) /\ other)
                 /\ newRound => /\ host'.rematchRequested = NoVotes
                                /\ host'.state.tags = <<>>
                                /\ host'.state.challenger = NoIndex
                                /\ host'.state.challengeResult = NoResult
                                /\ broadcast
                 /\ ((voteGuest \/ voteHost) /\ ~other)
                        => /\ host'.state = host.state
                           /\ host'.rematchRequested =
                                  IF voteGuest
                                  THEN [host.rematchRequested EXCEPT !.guest = TRUE]
                                  ELSE [host.rematchRequested EXCEPT !.host = TRUE]
                           /\ broadcast
      ]_vars

\* the host has started a new round after both votes, and the guest still
\* holds the vote status of the lone vote
C12_Witness ==
    /\ host.connected /\ host.initialized /\ host.isHostRole
    /\ host.state.gamePhase = PHASES.PLAYING
    /\ host.state.tags = <<>>
    /\ host.rematchRequested = NoVotes
    /\ guest.lastRematchStatus.host \/ guest.lastRematchStatus.guest

\* C13: the step that starts a new round of a session (phase Finished to
\* Playing) makes the round number one higher, and the new round's starting
\* player index is (round number - 1) mod 2: player 0 starts round 1, player
\* 1 round 2, player 0 round 3.
C13_StartingPlayerRotates ==
    [][ (/\ host.connected /\ host.initialized /\ host.isHostRole /\ host'.initialized
         /\ host.state.gamePhase = PHASES.FINISHED
         /\ host'.state.gamePhase = PHASES.PLAYING)
        => /\ host'.roundsStarted = host.roundsStarted + 1
           /\ host'.state.currentPlayerIndex = (host'.roundsStarted - 1) % 2
      ]_vars

\* C14: a Challenge that the host receives in a session with currentPlayerIndex
\* 1 and phase Playing sets the phase to Challenge, records player 1 as the
\* challenger, broadcasts one StateSync and starts the count query, none being
\* under way; a Challenge received otherwise is answered with NotYourTurn when
\* currentPlayerIndex is not 1, else GameNotPlaying, starts no query and
\* changes nothing of the host.  When the query under way returns a count in
\* the session, the phase becomes Finished, the challenge result holds the
\* count, and one StateSync of a newer version is broadcast with them.
C14_ChallengeFlow ==
    [][ /\ (/\ host.connected /\ host.initialized /\ host.isHostRole
            /\ toHost # <<>>
            /\ Head(toHost).type = GuestMessage.CHALLENGE
            /\ toHost' = Tail(toHost) /\ host'.connected /\ linkUp')
           => LET sent == SubSeq(toGuest', Len(toGuest) + 1, Len(toGuest'))
                  rejected(reason) ==
                      /\ sent = <<[type |-> HostMessage.ACTION_REJECTED,
                                   reason |-> reason]>>
                      /\ host' = host
              IN IF host.state.currentPlayerIndex # 1
                 THEN rejected(RejectionReason.NOT_YOUR_TURN)
                 ELSE IF host.state.gamePhase # PHASES.PLAYING
                 THEN rejected(RejectionReason.GAME_NOT_PLAYING)
                 ELSE /\ host'.state = [host.state EXCEPT !.gamePhase = PHASES.CHALLENGE,
                                                          !.challenger = 1]
                      /\ host'.stateVersion = incrementVersion(host.stateVersion)
                      /\ Len(sent) = 1
                      /\ sent[1].type = HostMessage.STATE_SYNC
                      /\ sent[1].version = host'.stateVersion
                      /\ sent[1].state.gamePhase = PHASES.CHALLENGE
                      /\ sent[1].state.challenger = host.state.players[1]
                      /\ ~host.queryPending /\ host'.queryPending
        /\ (host.connected /\ host.initialized /\ host.isHostRole /\ host.queryPending)
           => \A count \in Counts :
                  LET h1 == queryReturned(host, count) IN
                  /\ host.state.gamePhase = PHASES.CHALLENGE
                  /\ h1.state.gamePhase = PHASES.FINISHED
                  /\ h1.state.challengeResult # NoResult
                  /\ h1.state.challengeResult.count = count
                  /\ ~h1.queryPending
                  /\ isNewerVersion(h1.stateVersion, host.stateVersion)
                  /\ Len(h1.out) = 1
                  /\ h1.out[1].type = HostMessage.STATE_SYNC
                  /\ h1.out[1].version = h1.stateVersion
                  /\ h1.out[1].state.gamePhase = PHASES.FINISHED
                  /\ h1.out[1].state.challengeResult = h1.state.challengeResult
      ]_vars

\* the guest's challenge was accepted and the count query has returned
C14_Witness ==
    /\ host.connected /\ host.initialized /\ host.isHostRole
    /\ host.state.gamePhase = PHASES.FINISHED
    /\ host.state.challenger = 1
    /\ host.state.challengeResult # NoResult
    /\ ~host.queryPending

\* C15: in a session the StateSync of the last broadcast carries the host's
\* session win counts, so that after a challenge has resolved it shows the
\* winner's count one higher than before; and a guest that has applied the
\* host's current version reports the host's counts.
C15_StateSyncCarriesWins ==
    /\ (/\ host.connected /\ host.initialized /\ host.isHostRole
        /\ host.broadcast # NoMessage)
       => host.broadcast.state.sessionWins = host.sessionWins
    /\ (/\ host.connected /\ host.initialized /\ host.isHostRole
        /\ guest.connected /\ guest.initialized /\ guest.isGuestRole
        /\ linkUp
        /\ host.stateVersion # 0
        /\ guest.lastReceivedVersion = host.stateVersion)
       => guest.lastSessionWins = host.sessionWins

\* C16: the step in which the user ends the host's session sends
\* GameEnded(HostEndedSession) to the connected guest, and leaves the
\* heartbeat interval and the ack timer cancelled and the session state reset
\* (not initialized, guest not connected, stateVersion 0, retryCount 0, no
\* pending broadcast, no votes).  While the host controller is shut down no
\* timer is set, so no timer callback runs, the host sends no message, and
\* the guest is not signalled as disconnected.
C16_EndSessionTeardown ==
    [][ /\ (host.initialized /\ ~host'.initialized /\ budget' = budget - 1)
           => /\ (host.connected /\ host.guestConnected /\ linkUp)
                  => toGuest' = Append(toGuest,
                                       [type |-> HostMessage.GAME_ENDED,
                                        reason |-> GameEndReason.HOST_ENDED_SESSION])
              /\ host'.heartbeatInterval = Off
              /\ host'.ackTimeout = Off
              /\ ~host'.guestConnected
              /\ host'.stateVersion = 0
              /\ host'.retryCount = 0
              /\ ~host'.pendingAck
              /\ host'.rematchRequested = NoVotes
        /\ ~host.initialized
           => /\ host.heartbeatInterval = Off
              /\ host.ackTimeout = Off
        /\ (~host.initialized /\ ~host'.initialized)
           => /\ Len(toGuest') <= Len(toGuest)
              /\ \A i \in 1..Len(toGuest') :
                     toGuest'[i] = toGuest[i + Len(toGuest) - Len(toGuest')]
              /\ host'.guestDisconnectedSignalled = host.guestDisconnectedSignalled
      ]_vars

\* the host has ended the session with New Game: the channel is open and
\* GameEnded is on its way to the guest
C16_Witness ==
    /\ host.connected /\ ~host.initialized
    /\ guest.connected /\ guest.initialized
    /\ toGuest # <<>>
    /\ toGuest[Len(toGuest)] = [type |-> HostMessage.GAME_ENDED,
                                reason |-> GameEndReason.HOST_ENDED_SESSION]

\* C17: in a session of the guest, the handler of a Welcome, an
\* ActionRejected or a Ping leaves the liveness timeout at the full
\* HEARTBEAT_TIMEOUT_MS (30 s), and so does every receipt of a message, a
\* StateSync of a new or of an old version included; the time left on the
\* timeout goes down only as time passes, never below zero; and when it has
\* run out, with no message received for the whole of it, the timeout
\* callback ends the guest's session with the reason ConnectionLost and
\* shows the connection-lost notification, whatever the state of the host.
C17_AnyMessageRestartsTimeout ==
    [][ /\ (guest.connected /\ guest.initialized /\ guest.isGuestRole)
           => \A m \in {createWelcome(1), createPing}
                       \cup {createActionRejected(reason) :
                                 reason \in {RejectionReason.NOT_YOUR_TURN,
                                             RejectionReason.GAME_NOT_PLAYING,
                                             RejectionReason.DUPLICATE_TAG,
                                             RejectionReason.INVALID_TAG,
                                             RejectionReason.INVALID_ACTION}} :
                  guestWebRTCMessage(guest, m).heartbeatTimeout = HEARTBEAT_TIMEOUT_MS
        /\ (/\ guest.connected /\ guest.initialized /\ guest.isGuestRole
            /\ toGuest # <<>>
            /\ toGuest' = Tail(toGuest) /\ guest'.connected /\ linkUp')
           => guest'.heartbeatTimeout = HEARTBEAT_TIMEOUT_MS
        /\ guest.heartbeatTimeout # Off => guest.heartbeatTimeout >= 0
        /\ guest'.heartbeatTimeout \in {guest.heartbeatTimeout, HEARTBEAT_TIMEOUT_MS, Off,
                                        guest.heartbeatTimeout - Quantum}
        /\ (/\ guest.heartbeatTimeout # Off
            /\ guest'.heartbeatTimeout = guest.heartbeatTimeout - Quantum)
           => /\ guest.heartbeatTimeout > 0
              /\ toGuest' = toGuest /\ toHost' = toHost
        /\ guest.heartbeatTimeout = 0
           => LET g1 == heartbeatTimeoutCallback(guest) IN
              /\ guest.connected /\ guest.initialized
              /\ g1.connectionLostShown
              /\ g1.hostDisconnectedReason = GameEndReason.CONNECTION_LOST
              /\ ~g1.initialized /\ ~g1.connected
              /\ g1.heartbeatTimeout = Off
      ]_vars

\* the guest's timeout has run out and ended its session while the host
\* still runs the session and has not declared the guest disconnected
C17_Witness ==
    /\ guest.connectionLostShown
    /\ guest.hostDisconnectedReason = GameEndReason.CONNECTION_LOST
    /\ ~guest.initialized
    /\ host.connected /\ host.initialized
    /\ ~host.guestDisconnectedSignalled
    /\ ~host.pendingAck

\* C18: the guest's handler of a received GameEnded(HostEndedSession) ends its
\* session with that reason and without the connection-lost notification; the
\* host raises the connection-lost notification only while its session runs
\* (a liveness failure or an unexpected close of the channel), not when the
\* channel closes after the host has ended the session.
C18_VoluntaryTeardownSilent ==
    [][ /\ (/\ guest.connected /\ guest.initialized /\ guest.isGuestRole
            /\ toGuest # <<>>
            /\ Head(toGuest) = [type |-> HostMessage.GAME_ENDED,
                                reason |-> GameEndReason.HOST_ENDED_SESSION])
           => LET g1 == guestWebRTCMessage(guest, Head(toGuest)) IN
              /\ g1.hostDisconnectedReason = GameEndReason.HOST_ENDED_SESSION
              /\ ~g1.connectionLostShown
              /\ ~g1.initialized
        /\ (host'.connectionLostShown /\ ~host.connectionLostShown)
           => host.initialized
      ]_vars

\* C19: a step in which the host answers a SubmitTurn or a Challenge with
\* ActionRejected sends that one message and no StateSync, and changes
\* nothing of the host: stateVersion, pendingAck, retryCount, the rematch
\* votes, guestConnected, both timers and the game state are as before, and
\* the session goes on.
C19_RejectionLeavesSession ==
    [][ LET sent == SubSeq(toGuest', Len(toGuest) + 1, Len(toGuest')) IN
        (/\ host.connected /\ host.initialized /\ host.isHostRole
         /\ toHost # <<>>
         /\ Head(toHost).type \in {GuestMessage.SUBMIT_TURN, GuestMessage.CHALLENGE}
         /\ toHost' = Tail(toHost) /\ linkUp'
         /\ \E i \in 1..Len(sent) : sent[i].type = HostMessage.ACTION_REJECTED)
        => /\ Len(sent) = 1
           /\ host' = host
           /\ host'.initialized /\ host'.connected /\ host'.guestConnected
           /\ host'.heartbeatInterval # Off
      ]_vars

\* the host has rejected an intent of the guest and then accepted the guest's
\* next one: the rejection and the StateSync of the guest's turn are on their
\* way to the guest
C19_Witness ==
    /\ host.connected /\ host.initialized /\ host.isHostRole
    /\ host.state.gamePhase = PHASES.PLAYING
    /\ host.state.currentPlayerIndex = 0
    /\ host.state.tags # <<>>
    /\ Len(toGuest) = 2
    /\ toGuest[1].type = HostMessage.ACTION_REJECTED
    /\ toGuest[2].type = HostMessage.STATE_SYNC
    /\ toGuest[2].version = host.stateVersion
    /\ toGuest[2].state.currentPlayerIndex = 0
    /\ host.retryCount = 0

\* C20: in a session of the guest that has received its Welcome, each of the
\* operations setName, submitTurn, challenge and requestRematch sends exactly
\* its one message and leaves the guest's copy of the game state and
\* lastReceivedVersion as they are, submitTurn and challenge recording the
\* pending action and the other two changing nothing; and in every step
\* within a session of the guest, the guest's copy of the game state and
\* lastReceivedVersion change only in the receipt of a StateSync of a newer
\* version.
C20_GuestIntentsDoNotMutate ==
    [][ /\ (guest.connected /\ guest.initialized /\ guest.isGuestRole
            /\ guest.welcomeReceived)
           => /\ \A name \in GuestNames :
                     LET g1 == setName(guest, name) IN
                     /\ g1 = [guest EXCEPT !.out = <<createSetName(name)>>]
              /\ \A turn \in GuestTurns :
                     LET g1 == submitTurn(guest, turn[1], turn[2], turn[3]) IN
                     /\ g1.out = <<createSubmitTurn(turn[1], turn[2], turn[3])>>
                     /\ g1.pendingAction.type = "turn"
                     /\ g1 = [guest EXCEPT !.out = g1.out,
                                           !.pendingAction = g1.pendingAction]
              /\ LET g1 == challenge(guest) IN
                 /\ g1.out = <<createChallenge>>
                 /\ g1.pendingAction.type = "challenge"
                 /\ g1 = [guest EXCEPT !.out = g1.out, !.pendingAction = g1.pendingAction]
              /\ LET g1 == requestRematch(guest) IN
                 /\ g1 = [guest EXCEPT !.out = <<createRequestRematch>>]
        /\ (/\ guest.connected /\ guest.initialized /\ guest.isGuestRole
            /\ guest'.connected /\ guest'.initialized
            /\ \/ guest'.state # guest.state
               \/ guest'.lastReceivedVersion # guest.lastReceivedVersion)
           => /\ toGuest # <<>>
              /\ Head(toGuest).type = HostMessage.STATE_SYNC
              /\ isNewerVersion(Head(toGuest).version, guest.lastReceivedVersion)
              /\ toGuest' = Tail(toGuest)
              /\ guest'.lastReceivedVersion = Head(toGuest).version
      ]_vars

\* C21: the step in which the channel opens initializes the host controller,
\* puts exactly one message on the channel, Welcome with player index 1, and
\* sets the heartbeat interval; as long as the guest has not received its
\* Welcome over a working channel, the Welcome is the first message on the
\* channel, before every StateSync and Ping, and no later message is a
\* Welcome; and initialize on an initialized controller sends nothing and
\* changes nothing, stateVersion and the rematch votes included.
C21_WelcomeFirst ==
    [][ /\ sessions' = sessions + 1
           => /\ ~host.initialized /\ host'.initialized /\ host'.guestConnected
              /\ toGuest' = <<[type |-> HostMessage.WELCOME, playerIndex |-> 1]>>
              /\ host'.heartbeatInterval = HEARTBEAT_INTERVAL_MS
              /\ host'.stateVersion = 0
        /\ (guest.connected /\ guest.initialized /\ ~guest.welcomeReceived /\ linkUp)
           => /\ toGuest # <<>>
              /\ Head(toGuest) = [type |-> HostMessage.WELCOME, playerIndex |-> 1]
        /\ \A i \in 2..Len(toGuest) : toGuest[i].type # HostMessage.WELCOME
        /\ host.initialized => initialize(host) = host
      ]_vars

\* a StateSync or a Ping queues up behind the Welcome the guest has not yet
\* handled
C21_Witness ==
    /\ host.connected /\ host.initialized
    /\ guest.connected /\ guest.initialized /\ ~guest.welcomeReceived
    /\ Len(toGuest) >= 2
    /\ Head(toGuest).type = HostMessage.WELCOME
    /\ toGuest[2].type \in {HostMessage.STATE_SYNC, HostMessage.PING}

\* C22: a room ticket is used once.  While a ticket stays stored (same code,
\* same offer, same creation time) an answer stored in it is never replaced
\* by another, and a join request succeeds only if no other join request
\* for that code has succeeded.
C22_TicketSingleUse ==
    [][ /\ \A c \in DOMAIN signalling.kv \cap DOMAIN signalling'.kv :
              (/\ signalling.kv[c].answer # NULL
               /\ signalling'.kv[c].offer = signalling.kv[c].offer
               /\ signalling'.kv[c].created = signalling.kv[c].created)
              => signalling'.kv[c].answer = signalling.kv[c].answer
        /\ \A g \in GuestIds :
              (signalling.guests[g].pc # "joined" /\ signalling'.guests[g].pc = "joined")
              => \A other \in GuestIds \ {g} :
                    ~(/\ signalling.guests[other].pc = "joined"
                      /\ signalling.guests[other].code = signalling.guests[g].code)
      ]_vars

\* C23: a joinRoom whose room status request finds no room under the code
\* (never stored, or expired) fails with not found, and one that finds a
\* stored answer fails with already has a player; either way it fails
\* before it posts an answer.  The worker answers a join request likewise
\* when it reads no room or a room with an answer.  In all these cases the
\* store is left as it was, and a failed joinRoom takes no further step.
C23_JoinFailsFast ==
    [][\A g \in GuestIds :
          LET r == signalling.guests[g]
              after == signalling'.guests[g]
              code == IF r.pc = "idle" THEN after.code ELSE r.code
          IN /\ (r.pc \in {"idle", "post"} /\ after # r)
                => /\ code \notin DOMAIN signalling.kv
                      => /\ after.pc = "failed"
                         /\ after.error = "Room not found or expired"
                         /\ signalling'.kv = signalling.kv
                   /\ (code \in DOMAIN signalling.kv /\ signalling.kv[code].answer # NULL)
                      => /\ after.pc = "failed"
                         /\ after.error = "Room already has a player"
                         /\ signalling'.kv = signalling.kv
             /\ r.pc = "failed" => after = r
      ]_vars

\* a joinRoom has failed on a room that an earlier joinRoom had claimed
C23_Witness ==
    /\ signalling.guests["g1"].pc = "joined"
    /\ \E g \in GuestIds :
          /\ signalling.guests[g].pc = "failed"
          /\ signalling.guests[g].error = "Room already has a player"
          /\ signalling.guests[g].code \in DOMAIN signalling.kv
          /\ signalling.kv[signalling.guests[g].code].answer = "g1"

\* C24: room creation stores the offer under a code of 6 characters that is
\* not the code of a stored room, so that no stored room is overwritten;
\* it draws a code at most 10 times, and when the 10th code drawn is in use
\* too it fails and the store is left as it was.
C24_CreateNeverOverwrites ==
    [][\A h \in HostIds :
          LET r == signalling.hosts[h]
              after == signalling'.hosts[h]
          IN /\ (r.pc = "store" /\ after.pc = "ok")
                => /\ Len(r.code) = CODE_LENGTH
                   /\ r.code \notin DOMAIN signalling.kv
                   /\ signalling'.kv[r.code].offer = h
             /\ after.attempts <= MAX_CODE_ATTEMPTS
             /\ (r.pc # "failed" /\ after.pc = "failed")
                => /\ after.attempts = MAX_CODE_ATTEMPTS
                   /\ signalling'.kv = signalling.kv
      ]_vars

\* C25: a waitForGuest whose interval is armed eventually settles: it
\* resolves (after applying a stored answer), rejects because the room is
\* not found, or rejects after the poll timeout.  Once it has settled the
\* interval is no longer armed, so no further room status request is made,
\* and onTimeout has been called once if it settled by the timeout and not
\* at all otherwise.
C25_WaitForGuestSettles ==
    /\ [](\A h \in HostIds :
             LET r == signalling.hosts[h]
             IN /\ r.settled \in {"resolved", "expired", "timeout"}
                   => /\ ~r.polling
                      /\ r.onTimeoutCalls = (IF r.settled = "timeout" THEN 1 ELSE 0)
                      /\ r.settled = "resolved" => r.accepted # NULL
                /\ r.polling => r.settled = "pending")
    /\ \A h \in HostIds :
          signalling.hosts[h].polling
          ~> (signalling.hosts[h].settled \in {"resolved", "expired", "timeout"})

\* C26: a stored room expires no later than ROOM_TTL seconds after its
\* creation, joined or not
C26_LifetimeWithinTtl ==
    \A c \in DOMAIN signalling.kv :
        signalling.kv[c].expires - signalling.kv[c].created <= ROOM_TTL

\* C27: when the count query has failed (the server was not reached, it
\* answered with an error status other than a timeout, with a page that is
\* not JSON, with a remark that reports an error other than a timeout, or
\* without a usable count), no challenge result is set, no win is recorded
\* and the phase is not Finished: the failure is retried or given up, never
\* taken for a count.
C27_FailureNotZero ==
    LET failed(r) ==
            \/ r.status \notin {200, 504, 408}
            \/ /\ r.status = 200
               /\ \/ r.body # "json"
                  \/ r.remark = "runtime error: Query run out of memory"
                  \/ r.elements = "missing"
                  \/ r.elements = "count" /\ r.total \notin {"0", "7"}
    IN ("response" \in DOMAIN probe /\ failed(probe.response))
       => /\ host.state.challengeResult = NoResult
          /\ host.state.gamePhase # PHASES.FINISHED
          /\ host.sessionWins = NoWins

\* C28: when the count query of a challenge returns a count, the phase
\* becomes Finished and the challenge result holds that count; with count 0
\* its winner is the challenger and its loser the player before the
\* challenger in turn order, and with any other count, the value standing
\* for Infinity included, the winner is the player before the challenger
\* and the loser the challenger.
C28_ChallengeOutcome ==
    [][(host.queryPending /\ ~host'.queryPending)
       => LET result == executeCountQuery(probe'.response)
              challenger == host.state.players[host.state.challenger]
              previousPlayer == host.state.players[(host.state.challenger + 1) % 2]
              challengeResult == host'.state.challengeResult
          IN /\ host.state.gamePhase = PHASES.CHALLENGE
             /\ ~result.error
                => /\ host'.state.gamePhase = PHASES.FINISHED
                   /\ challengeResult.count = result.count
                   /\ challengeResult.challengerWon = (result.count = 0)
                   /\ challengeResult.winner =
                         (IF result.count = 0 THEN challenger.name ELSE previousPlayer.name)
                   /\ challengeResult.loser =
                         (IF result.count = 0 THEN previousPlayer.name ELSE challenger.name)
                   /\ challengeResult.winner # challengeResult.loser
      ]_vars

\* the guest challenged, the count query timed out on the server, and the
\* host, who moved before the guest, is the winner
C28_Witness ==
    /\ host.state.gamePhase = PHASES.FINISHED
    /\ host.state.challenger = 1
    /\ Len(host.state.tags) = 1
    /\ host.state.challengeResult.count = Infinity
    /\ host.state.challengeResult.winner = host.state.players[0].name
    /\ host.state.challengeResult.loser = host.state.players[1].name

\* C29: in the tag pool of the host's state, and in the guest's copy of it,
\* no two entries have the same key, and every key is a non-empty key in
\* the form addTag stores
C29_UniqueKeys ==
    \A tags \in {host.state.tags, guest.state.tags} :
        /\ \A i, j \in 1..Len(tags) : i # j => tags[i].key # tags[j].key
        /\ \A i \in 1..Len(tags) :
              tags[i].key # "" /\ tags[i].key = normalizeKey(tags[i].key)

\* the host has rejected a tag of the guest whose key is in the pool
C29_Witness ==
    /\ Len(host.state.tags) = 1
    /\ host.state.gamePhase = PHASES.PLAYING
    /\ \E i \in 1..Len(toGuest) :
          /\ toGuest[i].type = HostMessage.ACTION_REJECTED
          /\ toGuest[i].reason = RejectionReason.DUPLICATE_TAG

C31_PhaseEdges ==
    [][ (/\ host.connected /\ host.initialized /\ host.isHostRole
         /\ host'.connected /\ host'.initialized /\ host'.isHostRole)
        => /\ \/ host'.state.gamePhase = host.state.gamePhase
              \/ host'.state.gamePhase = PHASES.SETUP
              \/ <<host.state.gamePhase, host'.state.gamePhase>> \in
                    {<<PHASES.SETUP, PHASES.PLAYING>>,
                     <<PHASES.PLAYING, PHASES.CHALLENGE>>,
                     <<PHASES.CHALLENGE, PHASES.FINISHED>>,
                     <<PHASES.FINISHED, PHASES.PLAYING>>}
           /\ (host.roundsStarted >= 1 /\ host'.roundsStarted = host.roundsStarted + 1)
               => host.state.gamePhase = PHASES.FINISHED
           /\ (/\ toHost # <<>>
               /\ Head(toHost).type = GuestMessage.REQUEST_REMATCH
               /\ toHost' = Tail(toHost)
               /\ host.state.gamePhase # PHASES.FINISHED)
               => host'.state.tags = host.state.tags
      ]_vars

\* C32: the step in which the second rematch vote starts a new round leaves
\* both votes false, the tag pool empty, challenger and challengeResult
\* cleared and the phase Playing, and sends exactly one StateSync, of the next
\* version, that carries this state, its starting player and the votes; and
\* the snapshot the guest applies when it leaves phase Finished for Playing
\* shows the round wholly reset: no tags, no challenger, no result, no vote.
C32_RoundResetAtomic ==
    [][ /\ (/\ host.initialized /\ host'.initialized
            /\ host.roundsStarted >= 1
            /\ host'.roundsStarted = host.roundsStarted + 1)
            => /\ host'.rematchRequested = NoVotes
               /\ host'.state.tags = <<>>
               /\ host'.state.challenger = NoIndex
               /\ host'.state.challengeResult = NoResult
               /\ host'.state.gamePhase = PHASES.PLAYING
               /\ host'.stateVersion = incrementVersion(host.stateVersion)
               /\ host'.stateVersion # host.stateVersion
               /\ linkUp =>
                     SubSeq(toGuest', Len(toGuest) + 1, Len(toGuest')) =
                        <<createStateSync(host'.state, host'.stateVersion, NoVotes,
                                          NoWins)>>
        /\ (/\ guest.initialized /\ guest'.initialized
            /\ guest.state.gamePhase = PHASES.FINISHED
            /\ guest'.state.gamePhase = PHASES.PLAYING)
            => /\ guest'.state.tags = <<>>
               /\ guest'.state.challenger = NoPlayer
               /\ guest'.state.challengeResult = NoResult
               /\ guest'.lastRematchStatus = NoVotes
               /\ guest'.state.currentPlayerIndex = Head(toGuest).state.currentPlayerIndex
      ]_vars

\* the second round has started after a round in which a tag was played: its
\* snapshot is next in the channel to the guest, which still shows the
\* finished round with its tag
C32_Witness ==
    /\ host.initialized /\ guest.initialized
    /\ host.roundsStarted = 2
    /\ host.state.tags = <<>>
    /\ guest.state.gamePhase = PHASES.FINISHED
    /\ guest.state.tags # <<>>
    /\ toGuest # <<>>
    /\ Head(toGuest) = createStateSync(host.state, host.stateVersion, NoVotes, NoWins)

\* C33: in a session the guest's pending action is set only by submitting a
\* turn or a challenge and is cleared only by the receipt of an
\* ActionRejected or of a newer StateSync; and when a StateSync clears it, the
\* host has handled the pending intent before it broadcast that StateSync:
\* no SubmitTurn or Challenge of the guest is still on its way to the host.
C33_PendingUntilResponse ==
    [][ (/\ guest.connected /\ guest.initialized /\ guest.isGuestRole
         /\ guest'.connected /\ guest'.initialized /\ guest'.isGuestRole
         /\ guest'.pendingAction # guest.pendingAction)
        => IF guest'.pendingAction # NoAction
           THEN /\ toGuest' = toGuest
                /\ linkUp => /\ toHost' = Append(toHost, toHost'[Len(toHost')])
                             /\ toHost'[Len(toHost')].type \in
                                   {GuestMessage.SUBMIT_TURN, GuestMessage.CHALLENGE}
           ELSE /\ toGuest # <<>>
                /\ toGuest' = Tail(toGuest)
                /\ \/ Head(toGuest).type = HostMessage.ACTION_REJECTED
                   \/ /\ Head(toGuest).type = HostMessage.STATE_SYNC
                      /\ isNewerVersion(Head(toGuest).version, guest.lastReceivedVersion)
                      /\ \A i \in 1..Len(toHost) :
                            toHost[i].type \notin {GuestMessage.SUBMIT_TURN,
                                                   GuestMessage.CHALLENGE}
      ]_vars

\* C34: a broadcast made while an earlier one is unacknowledged takes its
\* place: retryCount is 0 and the one ack deadline is a full ACK_TIMEOUT_MS
\* away after it; the deadline that is armed is always that of the newest
\* broadcast and its retransmissions; a timeout retransmits the newest
\* version only; and an Ack of another version leaves the host as it was,
\* the broadcast still pending.
C34_BroadcastSupersedes ==
    [][ /\ (/\ host.initialized /\ host'.initialized
            /\ host.pendingAck
            /\ host'.broadcast # host.broadcast)
            => /\ host'.pendingAck
               /\ host'.retryCount = 0
               /\ host'.ackTimeout = ACK_TIMEOUT_MS
               /\ host'.stateVersion # host.stateVersion
               /\ host'.broadcast.version = host'.stateVersion
        /\ (host'.initialized /\ host'.pendingAck)
            => host'.ackTimeout + host'.sinceBroadcast =
                  (host'.retryCount + 1) * ACK_TIMEOUT_MS
        /\ (host.initialized /\ host'.retryCount = host.retryCount + 1)
            => /\ host'.ackTimeout = ACK_TIMEOUT_MS
               /\ host'.broadcast = host.broadcast
               /\ linkUp =>
                     /\ Len(toGuest') = Len(toGuest) + 1
                     /\ toGuest'[Len(toGuest')].type = HostMessage.STATE_SYNC
                     /\ toGuest'[Len(toGuest')].version = host.broadcast.version
        /\ (/\ host.connected /\ host.initialized /\ host.isHostRole
            /\ host.pendingAck
            /\ toHost # <<>>
            /\ Head(toHost).type = GuestMessage.ACK
            /\ Head(toHost).version # host.stateVersion
            /\ toHost' = Tail(toHost) /\ host'.connected /\ linkUp')
            => host' = host
      ]_vars

\* version 2 was broadcast while version 1, which the guest never received,
\* was unacknowledged, and has been retransmitted once, ACK_TIMEOUT_MS after
\* its broadcast
C34_Witness ==
    /\ host.initialized /\ guest.initialized
    /\ host.stateVersion = 2
    /\ host.pendingAck
    /\ host.retryCount = 1
    /\ host.sinceBroadcast = ACK_TIMEOUT_MS
    /\ guest.lastReceivedVersion = 0

\* C35: in every reachable state of the host controller retryCount is between
\* 0 and MAX_RETRIES, retryCount is 0 when no Ack is pending, and the ack
\* timer is set only while an Ack is pending, the controller is initialized
\* and guestConnected is true.
C35_HostInvariants ==
    /\ host.retryCount >= 0
    /\ host.retryCount <= MAX_RETRIES
    /\ ~host.pendingAck => host.retryCount = 0
    /\ host.ackTimeout # Off
        => host.pendingAck /\ host.initialized /\ host.guestConnected

\* the last retransmission of a broadcast has been made and the timer runs
\* for the last time
C35_Witness ==
    /\ host.initialized /\ host.guestConnected
    /\ host.pendingAck
    /\ host.retryCount = MAX_RETRIES
    /\ host.ackTimeout # Off

\* C36: a guest message handled by a host whose controller is shut down (by
\* endSession or shutdown) changes nothing of the host, so neither the game
\* state, stateVersion nor the votes, and nothing is sent in reply; a host
\* message handled by a guest whose controller is shut down changes nothing
\* of the guest and leaves its liveness timer off.  This holds for the
\* message that is next in the channel and for a message of every type, at
\* the main module's handler and at the controller's.
C36_LateMessagesIgnored ==
    LET guestMessages ==
            {createSetName("Ann"), createSubmitTurn("add_tag", "amenity", NULL),
             createSubmitTurn("specify_value", "amenity", "cafe"),
             createChallenge, createRequestRematch, createPong,
             createAck(host.stateVersion), createAck(1)}
            \cup (IF toHost # <<>> THEN {Head(toHost)} ELSE {})
        hostMessages ==
            {createWelcome(1), createPing,
             createStateSync(host.state, 1, NoVotes, NoWins),
             createStateSync(host.state, MAX_VERSION, NoVotes, NoWins),
             createActionRejected(RejectionReason.NOT_YOUR_TURN),
             createGameEnded(GameEndReason.HOST_ENDED_SESSION)}
            \cup (IF toGuest # <<>> THEN {Head(toGuest)} ELSE {})
    IN /\ ~host.initialized
           => \A m \in guestMessages : /\ hostWebRTCMessage(host, m) = host
                                       /\ handleGuestMessage(host, m) = host
       /\ ~guest.initialized
           => \A m \in hostMessages : /\ guestWebRTCMessage(guest, m) = guest
                                      /\ handleHostMessage(guest, m) = guest
                                      /\ guest.heartbeatTimeout = Off

\* the host has ended the session with New Game while a turn of the guest
\* was on its way: the channel is open and the SubmitTurn is delivered next
C36_Witness ==
    /\ ~host.initialized /\ ~host.isHostRole
    /\ host.connected
    /\ host.state.gamePhase = PHASES.SETUP
    /\ guest.initialized
    /\ toHost # <<>>
    /\ Head(toHost).type = GuestMessage.SUBMIT_TURN

\* C37: while the guest controller is initialized and has not received
\* Welcome, no SetName, SubmitTurn, Challenge or RequestRematch is on its way
\* to the host and no action is pending, and a call of setName, submitTurn,
\* challenge or requestRematch returns with the guest unchanged and nothing
\* sent.
C37_NoIntentBeforeWelcome ==
    (guest.initialized /\ ~guest.welcomeReceived)
    => /\ \A i \in 1..Len(toHost) :
             toHost[i].type \notin {GuestMessage.SET_NAME, GuestMessage.SUBMIT_TURN,
                                    GuestMessage.CHALLENGE, GuestMessage.REQUEST_REMATCH}
       /\ guest.pendingAction = NoAction
       /\ \A name \in GuestNames : setName(guest, name) = guest
       /\ \A turn \in GuestTurns : submitTurn(guest, turn[1], turn[2], turn[3]) = guest
       /\ challenge(guest) = guest
       /\ requestRematch(guest) = guest

\* the guest has typed its name into the name input while the Welcome was
\* still on its way: handleGuestNameChange called setName and nothing was sent
C37_Witness ==
    /\ guest.connected /\ guest.initialized /\ guest.isGuestRole
    /\ ~guest.welcomeReceived
    /\ guest.nameInput = "Ann"
    /\ toGuest # <<>>
    /\ Head(toGuest) = createWelcome(1)
    /\ toHost = <<>>

\* C38: for all versions received and last in 0..MAX_VERSION, a version is
\* not newer than itself, and received is not found newer than last when
\* last is newer than received.
C38_StrictOrder ==
    probe.newer # NULL
    => /\ probe.received = probe.last => probe.newer = "no"
       /\ ~(probe.newer = "yes" /\ isNewerVersion(probe.last, probe.received))

\* C39: every StateSync the host sends carries the authoritative state as it
\* is when it is sent, and in a session the guest's game state changes only
\* by applying the StateSync that is next in the ordered channel, when its
\* version is newer than the last applied one, to the state it carries
\* (Setup shown as Waiting): so the guest's state is its initial state or a
\* state the host held earlier, taken in the host's order.
C39_GuestFollowsHost ==
    [][ /\ \A i \in (Len(toGuest) + 1)..Len(toGuest') :
              toGuest'[i].type = HostMessage.STATE_SYNC
              => [f \in DOMAIN snapshot(host'.state) |-> toGuest'[i].state[f]]
                    = snapshot(host'.state)
        /\ (/\ guest.connected /\ guest.initialized /\ guest.isGuestRole
            /\ guest'.connected /\ guest'.initialized /\ guest'.isGuestRole
            /\ guest'.state # guest.state)
            => /\ toGuest # <<>>
               /\ toGuest' = Tail(toGuest)
               /\ Head(toGuest).type = HostMessage.STATE_SYNC
               /\ isNewerVersion(Head(toGuest).version, guest.lastReceivedVersion)
               /\ guest'.lastReceivedVersion = Head(toGuest).version
               /\ guest'.state =
                     [f \in DOMAIN guest.state |->
                         IF f = "gamePhase" /\ Head(toGuest).state[f] = PHASES.SETUP
                         THEN PHASES.WAITING
                         ELSE Head(toGuest).state[f]]
      ]_vars

\* C40: while a host waits for its guest, setRemoteDescription is called
\* with the answer at most once and resolve is called at most once, also
\* when the interval fires while the request of an earlier callback is in
\* flight.
C40_AnswerAppliedOnce ==
    "inFlight" \in DOMAIN probe
    => /\ probe.setRemoteDescriptionCalls <= 1
       /\ probe.resolveCalls <= 1

====
